---------------------------- MODULE Spec2Model ----------------------------
(***************************************************************************)
(* Model of the chord/lyric alignment engine of porchsongs                 *)
(* (backend/app/services/chord_parser.py).                                 *)
(*                                                                         *)
(* A Python str is modelled as a sequence of one-character strings, so     *)
(* that splitting, joining, stripping and regular-expression matching are  *)
(* computed character by character, as the code computes them.             *)
(*                                                                         *)
(* The engine's functions are pure.  Each specification below draws the    *)
(* arguments of a call from a bounded set in its initial states and has    *)
(* one action per function, which applies the function to the arguments    *)
(* and records what it returned.  The specification of concurrent calls    *)
(* runs several calls statement by statement, in any order.                *)
(***************************************************************************)
EXTENDS Integers, Sequences, FiniteSets, TLC

VARIABLES
    called,     \* name of the function that has been applied, "none" before
    args,       \* record of the arguments of the call, by parameter name
    returned,   \* what the call returned (or raised)
    frames,     \* the calls in progress of the specification of concurrent
                \* calls, each with its arguments, position and local values
    _attempts,  \* RateLimiter._attempts: the accepted attempts of each client key
    clock,      \* the value time.monotonic() returns, in seconds
    history,    \* the checks made so far: key, time and outcome of each
    db,         \* the committed rows of the database, one field per table
    accepted_by_refresh  \* how many times refresh has accepted each refresh token

\* the state of the services around the engine
service_vars == <<_attempts, clock, history, db, accepted_by_refresh>>

vars == <<called, args, returned, frames, service_vars>>

\* no service has been used
ServicesIdle ==
    /\ _attempts = <<>>
    /\ clock = 0
    /\ history = <<>>
    /\ db = [users |-> <<>>, refresh_tokens |-> <<>>,
             songs |-> <<>>, song_revisions |-> <<>>]
    /\ accepted_by_refresh = <<>>

(***************************************************************************)
(* Bounds of the model.                                                    *)
(***************************************************************************)
MaxPieces == 3        \* pieces concatenated to form a classifier input line
MaxTextPieces == 5    \* pieces concatenated to form a document for the pairer
MaxChordPieces == 4   \* pieces concatenated to form a line for the position extractor
MaxSnapPieces == 5    \* pieces concatenated to form a text for the boundary snap
MaxOver == 2          \* how far a snapped position lies before and beyond the text
MaxTokens == 3        \* chord tokens of a chord line that is placed
MaxLyricPieces == 2   \* pieces concatenated to form an old or a new lyric line
MaxSameLinePieces == 3 \* pieces concatenated to form a lyric line that is unchanged
MaxOriginalLines == 3 \* lines of a document that is realigned
MaxRewrittenLines == 3 \* lines of the rewritten content
MaxOutOfRange == 1     \* line indexes tried below 0 and past the last entry
MaxCalls == 2          \* calls that run concurrently
MaxInlinePieces == 3   \* pieces concatenated to form a line in inline notation
max_attempts == 2      \* RateLimiter(max_attempts=...) of the limiter that is modelled
window_seconds == 2    \* RateLimiter(window_seconds=...) of the limiter that is modelled
MaxClock == 4          \* seconds that pass
MaxChecks == 5         \* checks made by the rate limiter
RefreshTokenLifetime == 3   \* settings.refresh_token_days, in steps of the clock
MaxSongs == 2          \* songs created
MaxRevisions == 5      \* revisions stored, of all songs

(***************************************************************************)
(* Python string primitives.                                               *)
(***************************************************************************)
\* str.isspace() characters that occur in the modelled inputs
Whitespace == {" ", "\t", "\n", "\r", "\f"}

\* characters matched by \d
Digits == {"0", "1", "2", "3", "4", "5", "6", "7", "8", "9"}

Max(a, b) == IF a >= b THEN a ELSE b
Min(a, b) == IF a <= b THEN a ELSE b

RECURSIVE Concat(_)
\* "".join(parts)
Concat(parts) ==
    IF parts = <<>> THEN <<>> ELSE Head(parts) \o Concat(Tail(parts))

RECURSIVE lstrip(_)
\* str.lstrip()
lstrip(s) ==
    IF s # <<>> /\ Head(s) \in Whitespace THEN lstrip(Tail(s)) ELSE s

RECURSIVE rstrip(_)
\* str.rstrip()
rstrip(s) ==
    IF s # <<>> /\ s[Len(s)] \in Whitespace
    THEN rstrip(SubSeq(s, 1, Len(s) - 1))
    ELSE s

\* str.strip()
strip(s) == rstrip(lstrip(s))

RECURSIVE split_ws_from(_, _, _)
\* str.split() with no separator: scan from index i, cur is the token being
\* accumulated; runs of whitespace separate tokens, empty tokens are dropped
split_ws_from(s, i, cur) ==
    IF i > Len(s)
    THEN IF cur = <<>> THEN <<>> ELSE <<cur>>
    ELSE IF s[i] \in Whitespace
         THEN (IF cur = <<>> THEN <<>> ELSE <<cur>>) \o split_ws_from(s, i + 1, <<>>)
         ELSE split_ws_from(s, i + 1, Append(cur, s[i]))

split_ws(s) == split_ws_from(s, 1, <<>>)

(***************************************************************************)
(* is_chord_line: the token regular expression                             *)
(*   ^[A-G][#b]?(m|maj|min|dim|aug|sus[24]?|add\d+|\d+|/[A-G][#b]?)*$      *)
(***************************************************************************)
Notes == {"A", "B", "C", "D", "E", "F", "G"}
Accidentals == {"#", "b"}

\* does the literal lit occur in tok at index i
LiteralAt(tok, i, lit) ==
    /\ i + Len(lit) - 1 <= Len(tok)
    /\ \A k \in 1..Len(lit) : tok[i + k - 1] = lit[k]

\* the indices just after a non-empty run of digits that starts at index i
DigitRunEnds(tok, i) ==
    {j \in (i + 1)..(Len(tok) + 1) : \A k \in i..(j - 1) : tok[k] \in Digits}

\* the indices at which one alternative of the group (...) can end when it
\* starts at index i
AltEnds(tok, i) ==
    UNION {
        IF LiteralAt(tok, i, <<"m">>) THEN {i + 1} ELSE {},
        IF LiteralAt(tok, i, <<"m", "a", "j">>) THEN {i + 3} ELSE {},
        IF LiteralAt(tok, i, <<"m", "i", "n">>) THEN {i + 3} ELSE {},
        IF LiteralAt(tok, i, <<"d", "i", "m">>) THEN {i + 3} ELSE {},
        IF LiteralAt(tok, i, <<"a", "u", "g">>) THEN {i + 3} ELSE {},
        IF LiteralAt(tok, i, <<"s", "u", "s">>)
        THEN {i + 3} \cup (IF i + 3 <= Len(tok) /\ tok[i + 3] \in {"2", "4"}
                           THEN {i + 4} ELSE {})
        ELSE {},
        IF LiteralAt(tok, i, <<"a", "d", "d">>)
        THEN DigitRunEnds(tok, i + 3) ELSE {},
        DigitRunEnds(tok, i),
        IF i + 1 <= Len(tok) /\ tok[i] = "/" /\ tok[i + 1] \in Notes
        THEN {i + 2} \cup (IF i + 2 <= Len(tok) /\ tok[i + 2] \in Accidentals
                           THEN {i + 3} ELSE {})
        ELSE {}
    }

RECURSIVE GroupStarMatches(_, _)
\* (...)*$ matches tok from index i on
GroupStarMatches(tok, i) ==
    \/ i = Len(tok) + 1
    \/ \E j \in AltEnds(tok, i) : GroupStarMatches(tok, j)

\* re.match(r"^[A-G][#b]?(...)*$", token)
re_match_chord(token) ==
    /\ Len(token) >= 1
    /\ token[1] \in Notes
    /\ \/ GroupStarMatches(token, 2)
       \/ /\ Len(token) >= 2
          /\ token[2] \in Accidentals
          /\ GroupStarMatches(token, 3)

\* the emptiness test of the stripped line left out
is_chord_line_no_empty_test(line) ==
    \A k \in 1..Len(split_ws(strip(line))) : re_match_chord(split_ws(strip(line))[k])

is_chord_line(line) ==
    LET stripped == strip(line)
        tokens == split_ws(stripped)
    IN  IF stripped = <<>>
        THEN FALSE
        ELSE \A k \in 1..Len(tokens) : re_match_chord(tokens[k])

(***************************************************************************)
(* Specification of the classifier: one call of is_chord_line.             *)
(***************************************************************************)
ClassifierPieces ==
    { <<"A">>, <<"A", "m">>, <<"G">>, <<"H">>, <<"#">>, <<"b">>, <<"m">>, <<"m", "a", "j">>,
      <<"m", "i", "n">>, <<"d", "i", "m">>, <<"a", "u", "g">>, <<"s", "u", "s">>,
      <<"2">>, <<"4">>, <<"a", "d", "d">>, <<"7">>, <<"/">>, <<" ">>, <<"\t">>,
      <<"x">> }

ClassifierLines ==
    { Concat(ps) : ps \in UNION { [1..n -> ClassifierPieces] : n \in 0..MaxPieces } }

InitClassifier ==
    /\ called = "none"
    /\ args \in { [line |-> l] : l \in ClassifierLines }
    /\ returned = "none"
    /\ frames = <<>>
    /\ ServicesIdle

CallIsChordLine ==
    /\ called = "none"
    /\ called' = "is_chord_line"
    /\ returned' = is_chord_line(args.line)
    /\ UNCHANGED <<args, frames, service_vars>>

NextClassifier == CallIsChordLine

SpecClassifier == InitClassifier /\ [][NextClassifier]_vars

(***************************************************************************)
(* C1.  is_chord_line returns true if and only if the line, after          *)
(* trimming, is non-empty and every whitespace-delimited token belongs to  *)
(* the chord grammar: a note letter A-G, an optional # or b, then any      *)
(* sequence of the units m, maj, min, dim, aug, sus, sus2, sus4,           *)
(* add<digits>, <digits>, /<note> and /<note><accidental>.  Empty and      *)
(* whitespace-only lines are never chord lines.                            *)
(***************************************************************************)
\* the maximal runs of non-whitespace characters of a line
MaximalRuns(l) ==
    { SubSeq(l, i, j) : <<i, j>> \in
        { p \in (1..Len(l)) \X (1..Len(l)) :
            /\ p[1] <= p[2]
            /\ \A k \in p[1]..p[2] : l[k] \notin Whitespace
            /\ (p[1] = 1 \/ l[p[1] - 1] \in Whitespace)
            /\ (p[2] = Len(l) \/ l[p[2] + 1] \in Whitespace) } }

AllDigits(s) == Len(s) >= 1 /\ \A k \in 1..Len(s) : s[k] \in Digits

GrammarHead(s) ==
    \/ Len(s) = 1 /\ s[1] \in Notes
    \/ Len(s) = 2 /\ s[1] \in Notes /\ s[2] \in Accidentals

GrammarUnit(s) ==
    \/ s \in { <<"m">>, <<"m", "a", "j">>, <<"m", "i", "n">>, <<"d", "i", "m">>,
               <<"a", "u", "g">>, <<"s", "u", "s">>, <<"s", "u", "s", "2">>,
               <<"s", "u", "s", "4">> }
    \/ Len(s) > 3 /\ SubSeq(s, 1, 3) = <<"a", "d", "d">> /\ AllDigits(SubSeq(s, 4, Len(s)))
    \/ AllDigits(s)
    \/ Len(s) >= 2 /\ s[1] = "/" /\ GrammarHead(Tail(s))

RECURSIVE InChordGrammar(_)
\* a head, or a shorter word of the grammar followed by one more unit
InChordGrammar(t) ==
    \/ GrammarHead(t)
    \/ \E k \in 1..(Len(t) - 1) :
          /\ GrammarUnit(SubSeq(t, k + 1, Len(t)))
          /\ InChordGrammar(SubSeq(t, 1, k))

C1_ClassifierGrammar ==
    called = "is_chord_line" =>
        (returned <=>
            /\ \E k \in 1..Len(args.line) : args.line[k] \notin Whitespace
            /\ \A t \in MaximalRuns(args.line) : InChordGrammar(t))

\* a line of several tokens, one of them with a suffix, has been accepted
C1_Witness ==
    /\ called = "is_chord_line"
    /\ returned = TRUE
    /\ Cardinality(MaximalRuns(args.line)) >= 2
    /\ \E t \in MaximalRuns(args.line) : Len(t) >= 2

(***************************************************************************)
(* separate_chords_and_text, extract_text_only and the reassembly of a     *)
(* document from its entries.                                              *)
(***************************************************************************)
\* the value None of an entry's "chords": a sequence whose only element is
\* not a character, so that it differs from every str
None == <<"None">>

RECURSIVE split_newline_from(_, _, _)
\* str.split("\n"): scan from index i, cur is the line being accumulated; every
\* "\n" ends a line, empty lines are kept
split_newline_from(s, i, cur) ==
    IF i > Len(s)
    THEN <<cur>>
    ELSE IF s[i] = "\n"
         THEN <<cur>> \o split_newline_from(s, i + 1, <<>>)
         ELSE split_newline_from(s, i + 1, Append(cur, s[i]))

split_newline(s) == split_newline_from(s, 1, <<>>)

RECURSIVE join_newline(_)
\* "\n".join(parts)
join_newline(parts) ==
    IF parts = <<>> THEN <<>>
    ELSE IF Len(parts) = 1 THEN parts[1]
    ELSE parts[1] \o <<"\n">> \o join_newline(Tail(parts))

RECURSIVE separate_loop_no_lookahead(_, _, _)
\* the test of the line below left out: a chord line always takes the next line
separate_loop_no_lookahead(lines, i, result) ==
    IF ~(i < Len(lines))
    THEN result
    ELSE IF is_chord_line(lines[i + 1])
         THEN IF i + 1 < Len(lines)
              THEN separate_loop_no_lookahead(lines, i + 2,
                       Append(result, [chords |-> lines[i + 1], text |-> lines[i + 2]]))
              ELSE separate_loop_no_lookahead(lines, i + 1,
                       Append(result, [chords |-> lines[i + 1], text |-> <<>>]))
         ELSE separate_loop_no_lookahead(lines, i + 1,
                  Append(result, [chords |-> None, text |-> lines[i + 1]]))

RECURSIVE separate_loop(_, _, _)
\* the while loop of separate_chords_and_text; i is the code's 0-based cursor
\* (the code's lines[i] is lines[i + 1] here)
separate_loop(lines, i, result) ==
    IF ~(i < Len(lines))
    THEN result
    ELSE IF is_chord_line(lines[i + 1])
         THEN IF i + 1 < Len(lines) /\ ~is_chord_line(lines[i + 2])
              THEN separate_loop(lines, i + 2,
                       Append(result, [chords |-> lines[i + 1], text |-> lines[i + 2]]))
              ELSE separate_loop(lines, i + 1,
                       Append(result, [chords |-> lines[i + 1], text |-> <<>>]))
         ELSE separate_loop(lines, i + 1,
                  Append(result, [chords |-> None, text |-> lines[i + 1]]))

separate_chords_and_text(text) == separate_loop(split_newline(text), 0, <<>>)

\* the texts of the entries, in order
EntryTexts(parsed) == [k \in 1..Len(parsed) |-> parsed[k].text]

\* only non-empty texts appended: if entry["text"]: text_lines.append(...)
extract_text_only_drop_empty(text) ==
    join_newline(SelectSeq(EntryTexts(separate_chords_and_text(text)),
                           LAMBDA t : t # <<>>))

extract_text_only(text) ==
    join_newline(EntryTexts(separate_chords_and_text(text)))

RECURSIVE result_lines(_)
\* the reassembly loop of replace_line_with_chords: for every entry its chord
\* line, if it has one, then its text
result_lines(parsed) ==
    IF parsed = <<>> THEN <<>>
    ELSE (IF parsed[1].chords # None THEN <<parsed[1].chords>> ELSE <<>>)
         \o <<parsed[1].text>> \o result_lines(Tail(parsed))

reassemble(parsed) == join_newline(result_lines(parsed))

(***************************************************************************)
(* Specification of the pairer: a document is separated into entries,      *)
(* its text lines are extracted, or its entries are reassembled.           *)
(***************************************************************************)
TextPieces == { <<"G">>, <<"A", "m">>, <<"h", "i">>, <<" ">>, <<"\n">> }

PairerTexts ==
    { Concat(ps) : ps \in UNION { [1..n -> TextPieces] : n \in 0..MaxTextPieces } }

InitPairer ==
    /\ called = "none"
    /\ args \in { [text |-> t] : t \in PairerTexts }
    /\ returned = "none"
    /\ frames = <<>>
    /\ ServicesIdle

CallSeparateChordsAndText ==
    /\ called = "none"
    /\ called' = "separate_chords_and_text"
    /\ returned' = separate_chords_and_text(args.text)
    /\ UNCHANGED <<args, frames, service_vars>>

CallExtractTextOnly ==
    /\ called = "none"
    /\ called' = "extract_text_only"
    /\ returned' = extract_text_only(args.text)
    /\ UNCHANGED <<args, frames, service_vars>>

\* the pairing of the document followed by the reassembly of its entries
CallReassemble ==
    /\ called = "none"
    /\ called' = "reassemble"
    /\ returned' = reassemble(separate_chords_and_text(args.text))
    /\ UNCHANGED <<args, frames, service_vars>>

NextPairer ==
    \/ CallSeparateChordsAndText
    \/ CallExtractTextOnly
    \/ CallReassemble

SpecPairer == InitPairer /\ [][NextPairer]_vars

(***************************************************************************)
(* C2.  The pairer follows the greedy one-line lookahead rule: with the    *)
(* cursor at line i, a chord line gives an entry with chords = line i      *)
(* whose text is line i+1 when that line exists and is not a chord line    *)
(* (the cursor advances by 2) and the empty string otherwise (the cursor   *)
(* advances by 1); any other line gives an entry with chords = None and    *)
(* text = line i (the cursor advances by 1); the entries end when the      *)
(* cursor has passed the last line.                                        *)
(***************************************************************************)
\* does the line at 0-based index i take the line below it as its text
TakesNext(lines, i) ==
    /\ is_chord_line(lines[i + 1])
    /\ i + 1 < Len(lines)
    /\ ~is_chord_line(lines[i + 2])

RECURSIVE GreedyCursor(_, _)
\* the 0-based cursor at which entry k starts under the rule
GreedyCursor(lines, k) ==
    IF k = 1 THEN 0
    ELSE LET i == GreedyCursor(lines, k - 1)
         IN  IF i >= Len(lines) THEN i
             ELSE IF TakesNext(lines, i) THEN i + 2 ELSE i + 1

C2_GreedyPairing ==
    called = "separate_chords_and_text" =>
        LET lines == split_newline(args.text)
        IN  /\ GreedyCursor(lines, Len(returned) + 1) = Len(lines)
            /\ \A k \in 1..Len(returned) :
                  LET i == GreedyCursor(lines, k)
                  IN  /\ i < Len(lines)
                      /\ IF is_chord_line(lines[i + 1])
                         THEN /\ returned[k].chords = lines[i + 1]
                              /\ returned[k].text =
                                    IF TakesNext(lines, i) THEN lines[i + 2] ELSE <<>>
                         ELSE /\ returned[k].chords = None
                              /\ returned[k].text = lines[i + 1]

\* a document in which a chord line stood alone above another chord line,
\* which took the line below it as its text
C2_Witness ==
    /\ called = "separate_chords_and_text"
    /\ \E k \in 1..(Len(returned) - 1) :
          /\ returned[k].chords # None
          /\ returned[k].text = <<>>
          /\ returned[k + 1].chords # None
          /\ returned[k + 1].text # <<>>

(***************************************************************************)
(* C3.  Pairing round trip: emitting for each entry of the pairing its     *)
(* chord line, if present, and then its text line, joined by newline,      *)
(* reproduces the document exactly, also when it contains a chord line     *)
(* followed by another chord line or by the end of the input.              *)
(***************************************************************************)
C3_RoundTrip ==
    called = "reassemble" => returned = args.text

(***************************************************************************)
(* C4.  The number of newline-separated lines of extract_text_only(T)      *)
(* equals the number of entries of the pairing of T, and line k of the     *)
(* extracted text is the text of entry k.                                  *)
(***************************************************************************)
C4_ExtractLineCount ==
    called = "extract_text_only" =>
        LET out == split_newline(returned)
            parsed == separate_chords_and_text(args.text)
        IN  /\ Len(out) = Len(parsed)
            /\ \A k \in 1..Len(parsed) : out[k] = parsed[k].text

\* the extraction of a document with a blank line and a chord line that has
\* an empty text
C4_Witness ==
    /\ called = "extract_text_only"
    /\ LET parsed == separate_chords_and_text(args.text)
       IN  /\ \E k \in 1..Len(parsed) : parsed[k].chords = None /\ parsed[k].text = <<>>
           /\ \E k \in 1..Len(parsed) : parsed[k].chords # None /\ parsed[k].text = <<>>

(***************************************************************************)
(* C5.  In the pairing of any document the entries appear in the order of  *)
(* the input lines; an entry with a chord line has a chords field that is  *)
(* a chord line and a text that is not; every entry stands for one line,   *)
(* or for one chord line and the one text line below it, so that the       *)
(* number of lines is the number of entries plus the number of chord       *)
(* entries that took a text line, and entries <= lines <= 2 * entries.     *)
(***************************************************************************)
RECURSIVE SumSeq(_)
SumSeq(w) == IF w = <<>> THEN 0 ELSE Head(w) + SumSeq(Tail(w))

\* entries cover the lines in order when entry k stands for w[k] lines
Covers(lines, entries, w) ==
    /\ SumSeq(w) = Len(lines)
    /\ \A k \in 1..Len(entries) :
          LET at == SumSeq(SubSeq(w, 1, k - 1))
          IN  IF w[k] = 2
              THEN /\ entries[k].chords = lines[at + 1]
                   /\ entries[k].text = lines[at + 2]
              ELSE IF entries[k].chords = None
                   THEN entries[k].text = lines[at + 1]
                   ELSE /\ entries[k].chords = lines[at + 1]
                        /\ entries[k].text = <<>>

C5_PairedEntryInvariant ==
    called = "separate_chords_and_text" =>
        LET lines == split_newline(args.text)
        IN  /\ \A k \in 1..Len(returned) :
                  returned[k].chords # None =>
                      /\ is_chord_line(returned[k].chords)
                      /\ ~is_chord_line(returned[k].text)
            /\ \E w \in [1..Len(returned) -> {1, 2}] :
                  /\ \A k \in 1..Len(returned) :
                        w[k] = 2 => returned[k].chords # None
                  /\ Covers(lines, returned, w)
                  /\ Len(lines) = Len(returned)
                        + Cardinality({k \in 1..Len(returned) : w[k] = 2})
            /\ Len(returned) <= Len(lines)
            /\ Len(lines) <= 2 * Len(returned)

\* a pairing with fewer entries than lines and with an entry for a chord line
\* that took no text line
C5_Witness ==
    /\ called = "separate_chords_and_text"
    /\ Len(returned) < Len(split_newline(args.text))
    /\ \E k \in 1..Len(returned) : returned[k].chords # None /\ returned[k].text = <<>>

(***************************************************************************)
(* The position mapper: _extract_chord_positions, _snap_to_boundary and    *)
(* _place_chords.  Positions are the code's 0-based columns: column c of a *)
(* str s is s[c + 1] here.                                                 *)
(***************************************************************************)
RECURSIVE RunEnd(_, _)
\* the inner loop of _extract_chord_positions: j advances to the end of the
\* run of non-space characters
RunEnd(chord_line, j) ==
    IF j < Len(chord_line) /\ chord_line[j + 1] # " "
    THEN RunEnd(chord_line, j + 1)
    ELSE j

RECURSIVE extract_loop_one_based(_, _, _)
\* the column recorded one too far to the right: positions.append((i + 1, ...))
extract_loop_one_based(chord_line, i, positions) ==
    IF ~(i < Len(chord_line))
    THEN positions
    ELSE IF chord_line[i + 1] # " "
         THEN LET j == RunEnd(chord_line, i)
              IN  extract_loop_one_based(chord_line, j,
                      Append(positions, <<i + 1, SubSeq(chord_line, i + 1, j)>>))
         ELSE extract_loop_one_based(chord_line, i + 1, positions)

RECURSIVE extract_loop(_, _, _)
\* the outer loop of _extract_chord_positions
extract_loop(chord_line, i, positions) ==
    IF ~(i < Len(chord_line))
    THEN positions
    ELSE IF chord_line[i + 1] # " "
         THEN LET j == RunEnd(chord_line, i)
              IN  extract_loop(chord_line, j,
                      Append(positions, <<i, SubSeq(chord_line, i + 1, j)>>))
         ELSE extract_loop(chord_line, i + 1, positions)

_extract_chord_positions(chord_line) == extract_loop(chord_line, 0, <<>>)

RECURSIVE SnapLeft(_, _)
\* while left > 0 and text[left - 1] != " ": left -= 1
SnapLeft(text, left) ==
    IF left > 0 /\ text[left] # " " THEN SnapLeft(text, left - 1) ELSE left

RECURSIVE SnapRightAtSpace(_, _)
\* the character at right tested instead of the one before it:
\* while right < len(text) and text[right] != " ": right += 1
SnapRightAtSpace(text, right) ==
    IF right < Len(text) /\ text[right + 1] # " "
    THEN SnapRightAtSpace(text, right + 1)
    ELSE right

RECURSIVE SnapRight(_, _)
\* while right < len(text) and text[right - 1] != " ": right += 1
SnapRight(text, right) ==
    IF right < Len(text) /\ text[right] # " " THEN SnapRight(text, right + 1) ELSE right

\* a tie between the two boundaries goes to the right one
_snap_to_boundary_ties_right(text, pos) ==
    IF pos <= 0 THEN 0
    ELSE IF pos >= Len(text) THEN Len(text)
    ELSE IF pos = 0 \/ text[pos] = " " THEN pos
    ELSE LET left == SnapLeft(text, pos)
             right == SnapRight(text, pos)
         IN  IF pos - left < right - pos THEN left ELSE right

_snap_to_boundary(text, pos) ==
    IF pos <= 0 THEN 0
    ELSE IF pos >= Len(text) THEN Len(text)
    ELSE IF pos = 0 \/ text[pos] = " " THEN pos
    ELSE LET left == SnapLeft(text, pos)
             right == SnapRight(text, pos)
         IN  IF pos - left <= right - pos THEN left ELSE right

\* the slack of the working buffer of _place_chords
BufferSlack == 10

\* a working buffer without slack: list(" " * new_len)
blank_chord_line_no_slack(new_len) == [c \in 1..new_len |-> " "]

\* list(" " * (new_len + 10))
blank_chord_line(new_len) == [c \in 1..(new_len + BufferSlack) |-> " "]

\* the length of the old line is taken as it is
old_len_no_floor(original_line) == Len(original_line)

\* old_len = max(len(original_line), 1), the divisor of the proportional mapping
old_len(original_line) == Max(Len(original_line), 1)

\* new_len = max(len(new_line), 1)
new_len(new_line) == Max(Len(new_line), 1)

\* the proportional mapping and the snap of every position
new_positions(chord_positions, original_line, new_line) ==
    [n \in 1..Len(chord_positions) |->
        <<_snap_to_boundary(new_line,
                            (chord_positions[n][1] * new_len(new_line))
                                \div old_len(original_line)),
          chord_positions[n][2]>>]

\* any(chord_line[pos + k] != " " for k in range(len(chord)) if pos + k < len(chord_line))
Overlaps(chord_line, pos, chord) ==
    \E k \in 0..(Len(chord) - 1) :
        pos + k < Len(chord_line) /\ chord_line[pos + k + 1] # " "

RECURSIVE Advance(_, _, _)
\* the while loop that moves pos to the right while the chord overlaps, and
\* breaks at the right edge of the buffer
Advance(chord_line, pos, chord) ==
    IF Overlaps(chord_line, pos, chord)
    THEN IF pos + 1 >= Len(chord_line) - Len(chord)
         THEN pos + 1
         ELSE Advance(chord_line, pos + 1, chord)
    ELSE pos

\* for k, ch in enumerate(chord): if pos + k < len(chord_line): chord_line[pos + k] = ch
WriteChord(chord_line, pos, chord) ==
    [c \in 1..Len(chord_line) |->
        IF c - 1 >= pos /\ c - 1 - pos < Len(chord)
        THEN chord[c - pos]
        ELSE chord_line[c]]

RECURSIVE place_loop(_, _)
\* the loop over new_positions that writes the chords into the buffer
place_loop(positions, chord_line) ==
    IF positions = <<>>
    THEN chord_line
    ELSE LET chord == positions[1][2]
             pos0 == Max(0, Min(positions[1][1], Len(chord_line) - Len(chord)))
             pos == Advance(chord_line, pos0, chord)
         IN  place_loop(Tail(positions), WriteChord(chord_line, pos, chord))

\* the buffer is returned as it is, without rstrip()
_place_chords_untrimmed(chord_positions, original_line, new_line) ==
    IF chord_positions = <<>>
    THEN <<>>
    ELSE place_loop(new_positions(chord_positions, original_line, new_line),
                    blank_chord_line(new_len(new_line)))

_place_chords(chord_positions, original_line, new_line) ==
    IF chord_positions = <<>>
    THEN <<>>
    ELSE rstrip(place_loop(new_positions(chord_positions, original_line, new_line),
                           blank_chord_line(new_len(new_line))))

(***************************************************************************)
(* Specification of the position extractor: one call of                    *)
(* _extract_chord_positions.                                               *)
(***************************************************************************)
ChordPieces == { <<"G">>, <<"A", "m">>, <<" ">>, <<"\t">> }

ExtractorLines ==
    { Concat(ps) : ps \in UNION { [1..n -> ChordPieces] : n \in 0..MaxChordPieces } }

InitExtractor ==
    /\ called = "none"
    /\ args \in { [chord_line |-> l] : l \in ExtractorLines }
    /\ returned = "none"
    /\ frames = <<>>
    /\ ServicesIdle

CallExtractChordPositions ==
    /\ called = "none"
    /\ called' = "_extract_chord_positions"
    /\ returned' = _extract_chord_positions(args.chord_line)
    /\ UNCHANGED <<args, frames, service_vars>>

NextExtractor == CallExtractChordPositions

SpecExtractor == InitExtractor /\ [][NextExtractor]_vars

(***************************************************************************)
(* Specification of the boundary snap: one call of _snap_to_boundary.      *)
(***************************************************************************)
SnapPieces == { <<"a">>, <<" ">> }

SnapTexts ==
    { Concat(ps) : ps \in UNION { [1..n -> SnapPieces] : n \in 0..MaxSnapPieces } }

InitSnap ==
    /\ called = "none"
    /\ args \in { [text |-> t, pos |-> p] :
                    t \in SnapTexts, p \in (0 - MaxOver)..(MaxSnapPieces + MaxOver) }
    /\ args.pos <= Len(args.text) + MaxOver
    /\ returned = "none"
    /\ frames = <<>>
    /\ ServicesIdle

CallSnapToBoundary ==
    /\ called = "none"
    /\ called' = "_snap_to_boundary"
    /\ returned' = _snap_to_boundary(args.text, args.pos)
    /\ UNCHANGED <<args, frames, service_vars>>

NextSnap == CallSnapToBoundary

SpecSnap == InitSnap /\ [][NextSnap]_vars

(***************************************************************************)
(* Specification of the placement: the chords of a chord line are          *)
(* extracted and placed above a new lyric line, as realign_chords and      *)
(* replace_line_with_chords do.                                            *)
(***************************************************************************)
ChordTokens == { <<"G">>, <<"C", "m", "a", "j", "7">> }
FirstGaps == {0, 1, 2}
Gaps == {1, 2}
LyricPieces == { <<"a", "b">>, <<" ">>, <<"c", " ", "d">> }

Spaces(n) == [c \in 1..n |-> " "]

\* chord lines of up to MaxTokens tokens, each after a gap of spaces
ChordLinesOf(tokens) ==
    { Concat([k \in 1..Len(items) |-> Spaces(items[k][1]) \o items[k][2]]) :
        items \in { it \in UNION { [1..n -> (FirstGaps \cup Gaps) \X tokens] :
                                     n \in 0..MaxTokens } :
                      \A k \in 2..Len(it) : it[k][1] \in Gaps } }

PlacedChordLines == ChordLinesOf(ChordTokens)

LyricLines ==
    { Concat(ps) : ps \in UNION { [1..n -> LyricPieces] : n \in 0..MaxLyricPieces } }

InitPlace ==
    /\ called = "none"
    /\ args \in { [chord_line |-> c, original_line |-> o, new_line |-> n] :
                    c \in PlacedChordLines, o \in LyricLines, n \in LyricLines }
    /\ returned = "none"
    /\ frames = <<>>
    /\ ServicesIdle

CallPlaceChords ==
    /\ called = "none"
    /\ called' = "_place_chords"
    /\ returned' = _place_chords(_extract_chord_positions(args.chord_line),
                                 args.original_line, args.new_line)
    /\ UNCHANGED <<args, frames, service_vars>>

NextPlace == CallPlaceChords

SpecPlace == InitPlace /\ [][NextPlace]_vars

(***************************************************************************)
(* Specification of the placement above the unchanged line: the chords of  *)
(* a chord line are extracted and placed with the same lyric line as the   *)
(* old and as the new line.  A chord token may end in a tab.               *)
(***************************************************************************)
SameLineLyrics ==
    { Concat(ps) : ps \in UNION { [1..n -> LyricPieces] : n \in 0..MaxSameLinePieces } }

InitSameLine ==
    /\ called = "none"
    /\ args \in { [chord_line |-> c, original_line |-> l, new_line |-> l] :
                    c \in ChordLinesOf(ChordTokens \cup { <<"D", "\t">> }),
                    l \in SameLineLyrics }
    /\ returned = "none"
    /\ frames = <<>>
    /\ ServicesIdle

NextSameLine == CallPlaceChords

SpecSameLine == InitSameLine /\ [][NextSameLine]_vars

(***************************************************************************)
(* C6.  Placement never overlaps: for two or more chord tokens extracted   *)
(* from a chord line and every old and new lyric line, the output of       *)
(* _place_chords contains every token in full, as a contiguous substring,  *)
(* no two tokens sharing a column, at increasing columns in the order of   *)
(* the input tokens, also when tokens collide and are pushed towards the   *)
(* right edge of the working buffer.                                       *)
(***************************************************************************)
\* tok stands in out at the 0-based column c
OccursAt(out, c, tok) ==
    /\ c + Len(tok) <= Len(out)
    /\ \A k \in 1..Len(tok) : out[c + k] = tok[k]

RECURSIVE PlacedInOrder(_, _, _)
\* the tokens stand in out in order, each in full, at columns from `from` on,
\* each beginning after the end of the one before it
PlacedInOrder(out, toks, from) ==
    \/ toks = <<>>
    \/ \E c \in from..(Len(out) - Len(toks[1])) :
          /\ OccursAt(out, c, toks[1])
          /\ PlacedInOrder(out, Tail(toks), c + Len(toks[1]))

TokensOf(chord_positions) ==
    [n \in 1..Len(chord_positions) |-> chord_positions[n][2]]

C6_PlacementNeverOverlaps ==
    (called = "_place_chords" /\ Len(_extract_chord_positions(args.chord_line)) >= 2) =>
        PlacedInOrder(returned, TokensOf(_extract_chord_positions(args.chord_line)), 0)

(***************************************************************************)
(* C7.  Placement idempotence on identical text: for every chord line C    *)
(* and lyric line L, _place_chords(_extract_chord_positions(C), L, L)      *)
(* equals C with trailing spaces trimmed, also when a chord sits above the *)
(* middle of a word of L or beyond the end of L.                           *)
(***************************************************************************)
RECURSIVE TrimTrailingSpaces(_)
TrimTrailingSpaces(s) ==
    IF s # <<>> /\ s[Len(s)] = " "
    THEN TrimTrailingSpaces(SubSeq(s, 1, Len(s) - 1))
    ELSE s

IsBoundary(text, p) ==
    \/ p = 0
    \/ p = Len(text)
    \/ p < Len(text) /\ text[p] = " "

TrimTrailingWhitespace(s) ==
    IF \E k \in 1..Len(s) : s[k] \notin Whitespace
    THEN SubSeq(s, 1, CHOOSE k \in 1..Len(s) :
                        /\ s[k] \notin Whitespace
                        /\ \A m \in (k + 1)..Len(s) : s[m] \in Whitespace)
    ELSE <<>>

OnBoundariesWithinBuffer(chord_line, text) ==
    LET ps == _extract_chord_positions(chord_line)
    IN  \A n \in 1..Len(ps) :
            /\ IsBoundary(text, ps[n][1])
            /\ ps[n][1] + Len(ps[n][2]) <= Max(Len(text), 1) + 10

C8_SnapStability ==
    called = "_snap_to_boundary" =>
        /\ returned \in 0..Len(args.text)
        /\ \/ returned = 0
           \/ returned = Len(args.text)
           \/ args.text[returned] = " "

\* a position in the middle of a word that was snapped to the right, to a
\* column inside the text
C8_Witness ==
    /\ called = "_snap_to_boundary"
    /\ args.pos > 0
    /\ args.pos < Len(args.text)
    /\ args.text[args.pos] # " "
    /\ returned > args.pos
    /\ returned < Len(args.text)

(***************************************************************************)
(* C9.  _extract_chord_positions returns one (start column, token) pair    *)
(* per maximal run of non-space characters, from left to right: the start  *)
(* columns increase strictly, every token is non-empty, contains no space  *)
(* and equals the characters of the line from its start column, every      *)
(* character not covered by a token is a space, the empty line gives the   *)
(* empty list, and writing every token back at its column reproduces the   *)
(* line with trailing spaces trimmed.                                      *)
(***************************************************************************)
\* the 1-based index c of the line lies in the token of pair n
CoveredBy(positions, n, c) ==
    c - 1 >= positions[n][1] /\ c - 1 < positions[n][1] + Len(positions[n][2])

\* the line obtained by writing every token at its column, spaces elsewhere
WriteBack(positions) ==
    LET ends == { positions[n][1] + Len(positions[n][2]) : n \in 1..Len(positions) }
        width == IF ends = {} THEN 0 ELSE CHOOSE e \in ends : \A f \in ends : f <= e
    IN  [c \in 1..width |->
            IF \E n \in 1..Len(positions) : CoveredBy(positions, n, c)
            THEN LET n == CHOOSE n \in 1..Len(positions) : CoveredBy(positions, n, c)
                 IN  positions[n][2][c - positions[n][1]]
            ELSE " "]

C9_ExtractPositions ==
    called = "_extract_chord_positions" =>
        LET line == args.chord_line
        IN  /\ \A n \in 1..Len(returned) :
                  LET start == returned[n][1]
                      tok == returned[n][2]
                  IN  /\ tok # <<>>
                      /\ \A k \in 1..Len(tok) : tok[k] # " "
                      /\ start >= 0
                      /\ start + Len(tok) <= Len(line)
                      /\ SubSeq(line, start + 1, start + Len(tok)) = tok
                      /\ (start = 0 \/ line[start] = " ")
                      /\ (start + Len(tok) = Len(line) \/ line[start + Len(tok) + 1] = " ")
            /\ \A n \in 1..(Len(returned) - 1) : returned[n][1] < returned[n + 1][1]
            /\ \A c \in 1..Len(line) :
                  (~\E n \in 1..Len(returned) : CoveredBy(returned, n, c)) => line[c] = " "
            /\ (line = <<>> => returned = <<>>)
            /\ WriteBack(returned) = TrimTrailingSpaces(line)

\* the positions of a line that holds two tokens and ends with a space
C9_Witness ==
    /\ called = "_extract_chord_positions"
    /\ Len(returned) = 2
    /\ returned[1][2] = <<"G">>
    /\ args.chord_line[Len(args.chord_line)] = " "

(***************************************************************************)
(* realign_chords.                                                         *)
(***************************************************************************)
RECURSIVE realign_loop_keep_plain(_, _, _, _)
\* a non-chord entry keeps its own text and the new line meant for it is
\* skipped: result.append(entry["text"]); rewrite_idx += 1
realign_loop_keep_plain(parsed, rewritten_lines, rewrite_idx, result) ==
    IF parsed = <<>>
    THEN <<rewrite_idx, result>>
    ELSE LET entry == parsed[1]
             has_line == rewrite_idx < Len(rewritten_lines)
         IN  IF entry.chords # None
             THEN LET new_line == IF has_line THEN rewritten_lines[rewrite_idx + 1] ELSE <<>>
                      idx == IF has_line THEN rewrite_idx + 1 ELSE rewrite_idx
                  IN  IF strip(new_line) = <<>>
                      THEN realign_loop_keep_plain(Tail(parsed), rewritten_lines, idx,
                               result \o <<entry.chords, new_line>>)
                      ELSE realign_loop_keep_plain(Tail(parsed), rewritten_lines, idx,
                               result \o <<_place_chords(_extract_chord_positions(entry.chords),
                                                         entry.text, new_line),
                                           new_line>>)
             ELSE IF has_line
                  THEN realign_loop_keep_plain(Tail(parsed), rewritten_lines, rewrite_idx + 1,
                           Append(result, entry.text))
                  ELSE realign_loop_keep_plain(Tail(parsed), rewritten_lines, rewrite_idx,
                           Append(result, entry.text))

RECURSIVE realign_loop_drop_plain(_, _, _, _)
\* no fallback to the original text once the rewritten lines are exhausted: a
\* non-chord entry is emitted as an empty line
realign_loop_drop_plain(parsed, rewritten_lines, rewrite_idx, result) ==
    IF parsed = <<>>
    THEN <<rewrite_idx, result>>
    ELSE LET entry == parsed[1]
             has_line == rewrite_idx < Len(rewritten_lines)
         IN  IF entry.chords # None
             THEN LET new_line == IF has_line THEN rewritten_lines[rewrite_idx + 1] ELSE <<>>
                      idx == IF has_line THEN rewrite_idx + 1 ELSE rewrite_idx
                  IN  IF strip(new_line) = <<>>
                      THEN realign_loop_drop_plain(Tail(parsed), rewritten_lines, idx,
                               result \o <<entry.chords, new_line>>)
                      ELSE realign_loop_drop_plain(Tail(parsed), rewritten_lines, idx,
                               result \o <<_place_chords(_extract_chord_positions(entry.chords),
                                                         entry.text, new_line),
                                           new_line>>)
             ELSE IF has_line
                  THEN realign_loop_drop_plain(Tail(parsed), rewritten_lines, rewrite_idx + 1,
                           Append(result, rewritten_lines[rewrite_idx + 1]))
                  ELSE realign_loop_drop_plain(Tail(parsed), rewritten_lines, rewrite_idx,
                           Append(result, <<>>))

RECURSIVE realign_loop(_, _, _, _)
\* the loop of realign_chords over the entries of the original text; gives the
\* pair of rewrite_idx and result after the last entry
realign_loop(parsed, rewritten_lines, rewrite_idx, result) ==
    IF parsed = <<>>
    THEN <<rewrite_idx, result>>
    ELSE LET entry == parsed[1]
             has_line == rewrite_idx < Len(rewritten_lines)
         IN  IF entry.chords # None
             THEN LET new_line == IF has_line THEN rewritten_lines[rewrite_idx + 1] ELSE <<>>
                      idx == IF has_line THEN rewrite_idx + 1 ELSE rewrite_idx
                  IN  IF strip(new_line) = <<>>
                      THEN realign_loop(Tail(parsed), rewritten_lines, idx,
                               result \o <<entry.chords, new_line>>)
                      ELSE realign_loop(Tail(parsed), rewritten_lines, idx,
                               result \o <<_place_chords(_extract_chord_positions(entry.chords),
                                                         entry.text, new_line),
                                           new_line>>)
             ELSE IF has_line
                  THEN realign_loop(Tail(parsed), rewritten_lines, rewrite_idx + 1,
                           Append(result, rewritten_lines[rewrite_idx + 1]))
                  ELSE realign_loop(Tail(parsed), rewritten_lines, rewrite_idx,
                           Append(result, entry.text))

\* the rewritten lines left after the last entry are not appended
realign_chords_no_leftover(original_text, rewritten_content) ==
    join_newline(realign_loop(separate_chords_and_text(original_text),
                              split_newline(rewritten_content), 0, <<>>)[2])

realign_chords(original_text, rewritten_content) ==
    LET original_parsed == separate_chords_and_text(original_text)
        rewritten_lines == split_newline(rewritten_content)
        after == realign_loop(original_parsed, rewritten_lines, 0, <<>>)
        \* while rewrite_idx < len(rewritten_lines): result.append(...)
        remaining == SubSeq(rewritten_lines, after[1] + 1, Len(rewritten_lines))
    IN  join_newline(after[2] \o remaining)

(***************************************************************************)
(* Specification of the whole-document realignment: one call of            *)
(* realign_chords.                                                         *)
(***************************************************************************)
OriginalLines ==
    { <<>>, <<"G", " ", "A", "m">>, <<"a", "b", " ", "c", "d">>, <<"x">> }

RewrittenLines ==
    { <<>>, <<" ">>, <<"x", "y", " ", "z">>, <<"G">> }

TextsOf(lines, max) ==
    { join_newline(ls) : ls \in UNION { [1..n -> lines] : n \in 1..max } }

InitRealign ==
    /\ called = "none"
    /\ args \in { [original_text |-> o, rewritten_content |-> r] :
                    o \in TextsOf(OriginalLines, MaxOriginalLines),
                    r \in TextsOf(RewrittenLines, MaxRewrittenLines) }
    /\ returned = "none"
    /\ frames = <<>>
    /\ ServicesIdle

CallRealignChords ==
    /\ called = "none"
    /\ called' = "realign_chords"
    /\ returned' = realign_chords(args.original_text, args.rewritten_content)
    /\ UNCHANGED <<args, frames, service_vars>>

NextRealign == CallRealignChords

SpecRealign == InitRealign /\ [][NextRealign]_vars

(***************************************************************************)
(* C10.  Whole-document realignment with matching line counts: when the    *)
(* rewritten content has exactly one line per entry of the pairing of the  *)
(* original text, realign_chords outputs, for each entry in order, the     *)
(* realigned chord line (only for entries that had a chord line) followed  *)
(* by exactly the corresponding new line; non-chord entries are replaced   *)
(* one for one by the new line, so the lyric lines of the output are       *)
(* exactly the new lines, in order.                                        *)
(***************************************************************************)
\* the chord entries among the first k entries
ChordEntriesUpTo(parsed, k) == { m \in 1..k : parsed[m].chords # None }

\* the index, in the output, of the lyric line of entry k
LyricLineOf(parsed, k) == k + Cardinality(ChordEntriesUpTo(parsed, k))

\* the chord line above a new line: the old chord line above a blank new line,
\* the re-placed chords otherwise
RealignedChordLine(entry, new_line) ==
    IF \A c \in 1..Len(new_line) : new_line[c] \in Whitespace
    THEN entry.chords
    ELSE _place_chords(_extract_chord_positions(entry.chords), entry.text, new_line)

C10_RealignMatchingCounts ==
    LET parsed == separate_chords_and_text(args.original_text)
        new_lines == split_newline(args.rewritten_content)
        out == split_newline(returned)
    IN  (called = "realign_chords" /\ Len(new_lines) = Len(parsed)) =>
            /\ Len(out) = LyricLineOf(parsed, Len(parsed))
            /\ \A k \in 1..Len(parsed) :
                  /\ out[LyricLineOf(parsed, k)] = new_lines[k]
                  /\ parsed[k].chords # None =>
                        out[LyricLineOf(parsed, k) - 1] =
                            RealignedChordLine(parsed[k], new_lines[k])

\* a document with a plain line and a chord line above its text, realigned with
\* as many new lines as it has entries, the chords re-placed above a new line
\* that differs from the old one
C10_Witness ==
    LET parsed == separate_chords_and_text(args.original_text)
        new_lines == split_newline(args.rewritten_content)
    IN  /\ called = "realign_chords"
        /\ Len(new_lines) = Len(parsed)
        /\ \E k \in 1..Len(parsed) :
              parsed[k].chords = None /\ new_lines[k] # parsed[k].text
        /\ \E k \in 1..Len(parsed) :
              /\ parsed[k].chords # None
              /\ parsed[k].text # <<>>
              /\ \E c \in 1..Len(new_lines[k]) : new_lines[k][c] \notin Whitespace
              /\ RealignedChordLine(parsed[k], new_lines[k]) # parsed[k].chords

(***************************************************************************)
(* C11.  Short rewritten text: once the lines of the rewritten content     *)
(* are exhausted, every remaining non-chord entry is emitted with its      *)
(* original line verbatim and every remaining chord entry as its original  *)
(* chord line followed by an empty line; no original non-chord line is     *)
(* lost because the rewritten content was too short.                       *)
(***************************************************************************)
C11_ShortRewrittenFallback ==
    LET parsed == separate_chords_and_text(args.original_text)
        new_lines == split_newline(args.rewritten_content)
        out == split_newline(returned)
    IN  (called = "realign_chords" /\ Len(new_lines) < Len(parsed)) =>
            /\ Len(out) = LyricLineOf(parsed, Len(parsed))
            /\ \A k \in (Len(new_lines) + 1)..Len(parsed) :
                  IF parsed[k].chords = None
                  THEN out[LyricLineOf(parsed, k)] = parsed[k].text
                  ELSE /\ out[LyricLineOf(parsed, k) - 1] = parsed[k].chords
                       /\ out[LyricLineOf(parsed, k)] = <<>>

\* a realignment in which the rewritten lines ran out before a non-empty plain
\* line and before a chord entry
C11_Witness ==
    LET parsed == separate_chords_and_text(args.original_text)
        new_lines == split_newline(args.rewritten_content)
    IN  /\ called = "realign_chords"
        /\ Len(new_lines) < Len(parsed)
        /\ \E k \in (Len(new_lines) + 1)..Len(parsed) :
              parsed[k].chords = None /\ parsed[k].text # <<>>
        /\ \E k \in (Len(new_lines) + 1)..Len(parsed) : parsed[k].chords # None

(***************************************************************************)
(* C12.  Long rewritten text: when the rewritten content has more lines    *)
(* than the original has entries, every leftover new line is appended      *)
(* verbatim, in order, after the output for the last entry, with no chord  *)
(* line added, so no line of the rewritten content is dropped.             *)
(***************************************************************************)
C12_LongRewrittenAppended ==
    LET parsed == separate_chords_and_text(args.original_text)
        new_lines == split_newline(args.rewritten_content)
        out == split_newline(returned)
        last == LyricLineOf(parsed, Len(parsed))
    IN  (called = "realign_chords" /\ Len(new_lines) > Len(parsed)) =>
            /\ Len(out) = last + (Len(new_lines) - Len(parsed))
            /\ \A k \in 1..Len(parsed) : out[LyricLineOf(parsed, k)] = new_lines[k]
            /\ \A k \in (Len(parsed) + 1)..Len(new_lines) :
                  out[last + (k - Len(parsed))] = new_lines[k]

\* a realignment of a document with a chord entry in which two different new
\* lines were left over
C12_Witness ==
    LET parsed == separate_chords_and_text(args.original_text)
        new_lines == split_newline(args.rewritten_content)
    IN  /\ called = "realign_chords"
        /\ Len(new_lines) = Len(parsed) + 2
        /\ new_lines[Len(new_lines)] # new_lines[Len(new_lines) - 1]
        /\ \E k \in 1..Len(parsed) : parsed[k].chords # None

(***************************************************************************)
(* replace_line_with_chords: one text line of a document is replaced and   *)
(* the chords above it are placed again.  An exception is a returned       *)
(* record whose field raised names it; the fields text_line_index and      *)
(* max_idx are the two numbers of its message.                             *)
(***************************************************************************)
\* the loop that maps the index to an entry: target_entry_idx stays None
\* (is_none) when the loop ends without a match
RECURSIVE find_target(_, _, _, _)
find_target(idx, n, text_count, text_line_index) ==
    IF idx >= n
    THEN [is_none |-> TRUE, target_entry_idx |-> None, text_count |-> text_count]
    ELSE IF text_count = text_line_index
         THEN [is_none |-> FALSE, target_entry_idx |-> idx, text_count |-> text_count]
         ELSE find_target(idx + 1, n, text_count + 1, text_line_index)

\* the old text is read after the new text has been stored in the entry
replace_entry_old_text_lost(entry, new_line_text) ==
    LET old_text == new_line_text
    IN  IF entry.chords # None /\ strip(new_line_text) # <<>>
        THEN [chords |-> _place_chords(_extract_chord_positions(entry.chords),
                                       old_text, new_line_text),
              text |-> new_line_text]
        ELSE [chords |-> entry.chords, text |-> new_line_text]

\* the chords are placed again above a blank new line too
replace_entry_no_blank_test(entry, new_line_text) ==
    LET old_text == entry.text
    IN  IF entry.chords # None
        THEN [chords |-> _place_chords(_extract_chord_positions(entry.chords),
                                       old_text, new_line_text),
              text |-> new_line_text]
        ELSE [chords |-> entry.chords, text |-> new_line_text]

\* the addressed entry after the replacement
replace_entry(entry, new_line_text) ==
    LET old_text == entry.text
    IN  IF entry.chords # None /\ strip(new_line_text) # <<>>
        THEN [chords |-> _place_chords(_extract_chord_positions(entry.chords),
                                       old_text, new_line_text),
              text |-> new_line_text]
        ELSE [chords |-> entry.chords, text |-> new_line_text]

\* the index is taken from the end, as a negative subscript of a list is
replace_line_with_chords_wraps(full_text, text_line_index, new_line_text) ==
    LET parsed == separate_chords_and_text(full_text)
        index == IF text_line_index < 0
                 THEN text_line_index + Len(parsed) ELSE text_line_index
        found == find_target(0, Len(parsed), 0, index)
    IN  IF found.is_none
        THEN [raised |-> "IndexError",
              text_line_index |-> text_line_index,
              max_idx |-> found.text_count - 1]
        ELSE [raised |-> "none",
              value |-> reassemble([parsed EXCEPT ![found.target_entry_idx + 1] =
                                       replace_entry(@, new_line_text)])]

\* the chords of every entry are placed again, not only those of the addressed one
replace_line_with_chords_places_all(full_text, text_line_index, new_line_text) ==
    LET parsed == separate_chords_and_text(full_text)
        found == find_target(0, Len(parsed), 0, text_line_index)
    IN  IF found.is_none
        THEN [raised |-> "IndexError",
              text_line_index |-> text_line_index,
              max_idx |-> found.text_count - 1]
        ELSE [raised |-> "none",
              value |-> reassemble([k \in 1..Len(parsed) |->
                                       IF k = found.target_entry_idx + 1
                                       THEN replace_entry(parsed[k], new_line_text)
                                       ELSE replace_entry(parsed[k], parsed[k].text)])]

replace_line_with_chords(full_text, text_line_index, new_line_text) ==
    LET parsed == separate_chords_and_text(full_text)
        found == find_target(0, Len(parsed), 0, text_line_index)
    IN  IF found.is_none
        THEN [raised |-> "IndexError",
              text_line_index |-> text_line_index,
              max_idx |-> found.text_count - 1]
        ELSE [raised |-> "none",
              value |-> reassemble([parsed EXCEPT ![found.target_entry_idx + 1] =
                                       replace_entry(@, new_line_text)])]

(***************************************************************************)
(* Specification of the single-line editor: a line index inside or just    *)
(* outside the document and a new line are applied to a document.          *)
(***************************************************************************)
NewLineTexts == RewrittenLines \cup { <<"\t", " ">> }

LineIndexes == (0 - MaxOutOfRange)..(MaxOriginalLines - 1 + MaxOutOfRange)

InitReplace ==
    /\ called = "none"
    /\ args \in { [full_text |-> f, text_line_index |-> i, new_line_text |-> t] :
                    f \in TextsOf(OriginalLines, MaxOriginalLines),
                    i \in LineIndexes,
                    t \in NewLineTexts }
    /\ returned = "none"
    /\ frames = <<>>
    /\ ServicesIdle

CallReplaceLineWithChords ==
    /\ called = "none"
    /\ called' = "replace_line_with_chords"
    /\ returned' = replace_line_with_chords(args.full_text, args.text_line_index,
                                            args.new_line_text)
    /\ UNCHANGED <<args, frames, service_vars>>

NextReplace == CallReplaceLineWithChords

SpecReplace == InitReplace /\ [][NextReplace]_vars

(***************************************************************************)
(* C14.  replace_line_with_chords raises the out-of-range error exactly    *)
(* when the index addresses no entry (it is negative, or at least the      *)
(* number of entries); the message names the largest valid index, the      *)
(* number of entries minus one, and no text is returned.  For an index     *)
(* from 0 to the number of entries minus one a document is returned and    *)
(* nothing is raised.                                                      *)
(***************************************************************************)
C14_IndexOutOfRange ==
    LET n == Len(separate_chords_and_text(args.full_text))
        i == args.text_line_index
    IN  called = "replace_line_with_chords" =>
            IF i < 0 \/ i >= n
            THEN returned = [raised |-> "IndexError", text_line_index |-> i,
                             max_idx |-> n - 1]
            ELSE /\ DOMAIN returned = {"raised", "value"}
                 /\ returned.raised = "none"
                 /\ DOMAIN returned.value = 1..Len(returned.value)

\* a negative index was refused for a document of several entries
C14_Witness ==
    /\ called = "replace_line_with_chords"
    /\ args.text_line_index < 0
    /\ Len(separate_chords_and_text(args.full_text)) > 1
    /\ returned.raised = "IndexError"

(***************************************************************************)
(* C15.  The document returned by replace_line_with_chords is, for every   *)
(* entry in order, its chord line (if it has one) and then its text line,  *)
(* and every entry other than the addressed one contributes exactly the    *)
(* chord line and the text line it had in the pairing.                     *)
(***************************************************************************)
C15_OtherEntriesUnchanged ==
    LET parsed == separate_chords_and_text(args.full_text)
        target == args.text_line_index + 1
    IN  (called = "replace_line_with_chords" /\ returned.raised = "none") =>
            LET out == split_newline(returned.value)
            IN  /\ Len(out) = LyricLineOf(parsed, Len(parsed))
                /\ \A k \in 1..Len(parsed) :
                      k # target =>
                          /\ out[LyricLineOf(parsed, k)] = parsed[k].text
                          /\ parsed[k].chords # None =>
                                 out[LyricLineOf(parsed, k) - 1] = parsed[k].chords

\* a line was given a different text in a document that has a chord entry
\* with text other than the addressed one
C15_Witness ==
    LET parsed == separate_chords_and_text(args.full_text)
        target == args.text_line_index + 1
    IN  /\ called = "replace_line_with_chords"
        /\ returned.raised = "none"
        /\ parsed[target].text # args.new_line_text
        /\ \E k \in 1..Len(parsed) :
              k # target /\ parsed[k].chords # None /\ parsed[k].text # <<>>

(***************************************************************************)
(* C16.  The index counts all entries: index i addresses the line that is  *)
(* line i of extract_text_only(full_text).  The text of the addressed      *)
(* entry becomes new_line_text; if the entry has a chord line and          *)
(* new_line_text is not blank, its chord line becomes the chords of the    *)
(* old chord line placed from the old text onto new_line_text; otherwise   *)
(* the chord line, or its absence, is kept.                                *)
(***************************************************************************)
C16_AddressedEntryReplaced ==
    LET parsed == separate_chords_and_text(args.full_text)
        text_lines == split_newline(extract_text_only(args.full_text))
        target == args.text_line_index + 1
    IN  (called = "replace_line_with_chords" /\ returned.raised = "none") =>
            LET out == split_newline(returned.value)
                line == LyricLineOf(parsed, target)
            IN  /\ Len(out) = LyricLineOf(parsed, Len(parsed))
                /\ out[line] = args.new_line_text
                /\ parsed[target].chords # None =>
                       out[line - 1] =
                           RealignedChordLine([chords |-> parsed[target].chords,
                                               text |-> text_lines[target]],
                                              args.new_line_text)

\* the line below a chord line, not the first entry, was replaced by a text of
\* another length and the chord line changed
C16_Witness ==
    LET parsed == separate_chords_and_text(args.full_text)
        target == args.text_line_index + 1
    IN  /\ called = "replace_line_with_chords"
        /\ returned.raised = "none"
        /\ target > 1
        /\ parsed[target].chords # None
        /\ Len(parsed[target].text) # Len(args.new_line_text)
        /\ split_newline(returned.value)[LyricLineOf(parsed, target) - 1]
               # parsed[target].chords

(***************************************************************************)
(* Specification of the two entry points that put chords above new text:   *)
(* either a document is realigned above rewritten content or one of its    *)
(* lines is replaced.  The arguments drawn decide which call is made.      *)
(***************************************************************************)
InitEntryPoints == InitRealign \/ InitReplace

Realign == "original_text" \in DOMAIN args /\ CallRealignChords

Replace == "full_text" \in DOMAIN args /\ CallReplaceLineWithChords

NextEntryPoints == Realign \/ Replace

SpecEntryPoints == InitEntryPoints /\ [][NextEntryPoints]_vars

IsBlank(line) == \A c \in 1..Len(line) : line[c] \in Whitespace

(***************************************************************************)
(* C13.  Whenever the new line for a chord entry is empty or consists of   *)
(* whitespace only, realign_chords and replace_line_with_chords both emit  *)
(* the original chord line of the entry unchanged, followed by the new     *)
(* line exactly as given.                                                  *)
(***************************************************************************)
C13_BlankNewLinePassthrough ==
    /\ called = "realign_chords" =>
           LET parsed == separate_chords_and_text(args.original_text)
               new_lines == split_newline(args.rewritten_content)
               out == split_newline(returned)
           IN  \A k \in 1..Len(parsed) :
                   (/\ k <= Len(new_lines)
                    /\ parsed[k].chords # None
                    /\ IsBlank(new_lines[k])) =>
                       /\ out[LyricLineOf(parsed, k) - 1] = parsed[k].chords
                       /\ out[LyricLineOf(parsed, k)] = new_lines[k]
    /\ (called = "replace_line_with_chords" /\ returned.raised = "none") =>
           LET parsed == separate_chords_and_text(args.full_text)
               target == args.text_line_index + 1
               out == split_newline(returned.value)
           IN  (parsed[target].chords # None /\ IsBlank(args.new_line_text)) =>
                   /\ out[LyricLineOf(parsed, target) - 1] = parsed[target].chords
                   /\ out[LyricLineOf(parsed, target)] = args.new_line_text

\* the text below a chord line was replaced by a line of whitespace
C13_Witness ==
    /\ called = "replace_line_with_chords"
    /\ returned.raised = "none"
    /\ LET entry == separate_chords_and_text(args.full_text)[args.text_line_index + 1]
       IN  entry.chords # None /\ entry.text # <<>>
    /\ args.new_line_text # <<>>
    /\ IsBlank(args.new_line_text)

(***************************************************************************)
(* Specification of the placement on degenerate input: one call of         *)
(* _place_chords with the positions of any line of the position extractor  *)
(* (an empty line and lines of spaces included) and old and new lines that *)
(* may be empty.                                                           *)
(***************************************************************************)
DegenerateLines ==
    { <<>>, <<" ">>, <<"a", "b">>, <<"c", " ", "d", " ", "e">> }

InitPlaceDegenerate ==
    /\ called = "none"
    /\ args \in { [chord_line |-> c, original_line |-> o, new_line |-> n] :
                    c \in ExtractorLines, o \in DegenerateLines, n \in DegenerateLines }
    /\ returned = "none"
    /\ frames = <<>>
    /\ ServicesIdle

SpecPlaceDegenerate == InitPlaceDegenerate /\ [][NextPlace]_vars

(***************************************************************************)
(* C17.  _place_chords returns a string, without an error, for every       *)
(* combination of inputs, an empty old line (its length is floored to 1,   *)
(* so the proportional mapping never divides by zero), an empty new line   *)
(* and an empty list of positions included; with an empty list of          *)
(* positions the result is the empty string.                               *)
(***************************************************************************)
C17_PlaceChordsTotal ==
    LET chord_positions == _extract_chord_positions(args.chord_line)
    IN  /\ old_len(args.original_line) # 0
        /\ called = "_place_chords" =>
               /\ DOMAIN returned = 1..Len(returned)
               /\ Len(returned) <= new_len(args.new_line) + BufferSlack
               /\ \A c \in 1..Len(returned) :
                      \/ returned[c] = " "
                      \/ \E n \in 1..Len(chord_positions) :
                             \E k \in 1..Len(chord_positions[n][2]) :
                                 returned[c] = chord_positions[n][2][k]
               /\ chord_positions = <<>> => returned = <<>>

\* chords were placed from an empty old line onto an empty new line
C17_Witness ==
    /\ called = "_place_chords"
    /\ args.original_line = <<>>
    /\ args.new_line = <<>>
    /\ Len(_extract_chord_positions(args.chord_line)) > 1
    /\ returned # <<>>

(***************************************************************************)
(* Specification of concurrent calls: MaxCalls calls of                    *)
(* replace_line_with_chords and realign_chords run statement by statement  *)
(* in any order.  A frame holds the function of a call, its arguments, the *)
(* statement it has reached (pc), its local variables and what it          *)
(* returned.  The module has no variable outside the functions that a call *)
(* writes, so every statement reads and writes the frame of its own call.  *)
(***************************************************************************)
\* the local variables of a call that has not assigned any of them
NoLocals ==
    [parsed |-> <<>>, target_entry_idx |-> 0, rewritten_lines |-> <<>>,
     rewrite_idx |-> 0, result |-> <<>>, entry |-> 0]

\* the local variables are module-level: one object written by every call
Store_module_level(fs, id, pc, locals) ==
    [k \in DOMAIN fs |->
        [fs[k] EXCEPT !.pc = IF k = id THEN pc ELSE @, !.locals = locals]]

\* a statement of call id assigns its local variables and moves on to pc
Store(fs, id, pc, locals) ==
    [fs EXCEPT ![id].pc = pc, ![id].locals = locals]

\* return or raise: the call ends with a value
Return(fs, id, value) ==
    [fs EXCEPT ![id].pc = "returned", ![id].returned = value]

ConcurrentDocuments ==
    { join_newline(<<<<"G", " ", "A", "m">>, <<"a", "b", " ", "c", "d">>>>),
      join_newline(<<<<"x">>, <<"G", " ", "A", "m">>, <<"a", "b", " ", "c", "d">>>>) }

ConcurrentNewLines == { <<"x", "y", " ", "z">>, <<>> }

ConcurrentIndexes == {0, 1}

ConcurrentRewritten ==
    { <<"x", "y", " ", "z">>,
      join_newline(<<<<"G">>, <<"x", "y", " ", "z">>, <<"x">>>>) }

ConcurrentCalls ==
    { [function |-> "replace_line_with_chords",
       args |-> [full_text |-> f, text_line_index |-> i, new_line_text |-> t]] :
          f \in ConcurrentDocuments, i \in ConcurrentIndexes, t \in ConcurrentNewLines }
    \cup
    { [function |-> "realign_chords",
       args |-> [original_text |-> o, rewritten_content |-> r]] :
          o \in ConcurrentDocuments, r \in ConcurrentRewritten }

InitConcurrent ==
    /\ called = "none"
    /\ args = <<>>
    /\ returned = "none"
    /\ frames \in [1..MaxCalls ->
                      { [function |-> c.function, args |-> c.args, pc |-> "start",
                         locals |-> NoLocals, returned |-> "none"] :
                           c \in ConcurrentCalls }]
    /\ ServicesIdle

\* parsed = separate_chords_and_text(full_text)
ReplaceParse(id) ==
    /\ frames[id].function = "replace_line_with_chords"
    /\ frames[id].pc = "start"
    /\ frames' = Store(frames, id, "parsed",
                       [frames[id].locals EXCEPT
                           !.parsed = separate_chords_and_text(frames[id].args.full_text)])
    /\ UNCHANGED <<called, args, returned, service_vars>>

\* the loop that maps the index to an entry, and the raise when it found none
ReplaceFindTarget(id) ==
    /\ frames[id].function = "replace_line_with_chords"
    /\ frames[id].pc = "parsed"
    /\ LET found == find_target(0, Len(frames[id].locals.parsed), 0,
                                frames[id].args.text_line_index)
       IN  IF found.is_none
           THEN frames' = Return(frames, id,
                                 [raised |-> "IndexError",
                                  text_line_index |-> frames[id].args.text_line_index,
                                  max_idx |-> found.text_count - 1])
           ELSE frames' = Store(frames, id, "found",
                                [frames[id].locals EXCEPT
                                    !.target_entry_idx = found.target_entry_idx])
    /\ UNCHANGED <<called, args, returned, service_vars>>

\* the addressed entry of parsed is changed in place
ReplaceEntry(id) ==
    /\ frames[id].function = "replace_line_with_chords"
    /\ frames[id].pc = "found"
    /\ frames[id].locals.target_entry_idx < Len(frames[id].locals.parsed)
    /\ frames' = Store(frames, id, "replaced",
                       [frames[id].locals EXCEPT
                           !.parsed[frames[id].locals.target_entry_idx + 1] =
                               replace_entry(@, frames[id].args.new_line_text)])
    /\ UNCHANGED <<called, args, returned, service_vars>>

\* the entries are reassembled and returned
ReplaceReturn(id) ==
    /\ frames[id].function = "replace_line_with_chords"
    /\ frames[id].pc = "replaced"
    /\ frames' = Return(frames, id,
                        [raised |-> "none",
                         value |-> reassemble(frames[id].locals.parsed)])
    /\ UNCHANGED <<called, args, returned, service_vars>>

\* original_parsed, rewritten_lines, result = [], rewrite_idx = 0
RealignParse(id) ==
    /\ frames[id].function = "realign_chords"
    /\ frames[id].pc = "start"
    /\ frames' = Store(frames, id, "parsed",
                       [frames[id].locals EXCEPT
                           !.parsed = separate_chords_and_text(frames[id].args.original_text),
                           !.rewritten_lines = split_newline(frames[id].args.rewritten_content),
                           !.result = <<>>,
                           !.rewrite_idx = 0,
                           !.entry = 0])
    /\ UNCHANGED <<called, args, returned, service_vars>>

\* one iteration of the loop over the entries
RealignEntry(id) ==
    /\ frames[id].function = "realign_chords"
    /\ frames[id].pc = "parsed"
    /\ frames[id].locals.entry < Len(frames[id].locals.parsed)
    /\ LET locals == frames[id].locals
           after == realign_loop(<<locals.parsed[locals.entry + 1]>>,
                                 locals.rewritten_lines, locals.rewrite_idx,
                                 locals.result)
       IN  frames' = Store(frames, id, "parsed",
                           [locals EXCEPT !.rewrite_idx = after[1],
                                          !.result = after[2],
                                          !.entry = @ + 1])
    /\ UNCHANGED <<called, args, returned, service_vars>>

\* the remaining rewritten lines are appended and the result is returned
RealignReturn(id) ==
    /\ frames[id].function = "realign_chords"
    /\ frames[id].pc = "parsed"
    /\ frames[id].locals.entry >= Len(frames[id].locals.parsed)
    /\ LET locals == frames[id].locals
       IN  frames' = Return(frames, id,
                            join_newline(locals.result
                                \o SubSeq(locals.rewritten_lines, locals.rewrite_idx + 1,
                                          Len(locals.rewritten_lines))))
    /\ UNCHANGED <<called, args, returned, service_vars>>

NextConcurrent ==
    \/ \E id \in DOMAIN frames : ReplaceParse(id)
    \/ \E id \in DOMAIN frames : ReplaceFindTarget(id)
    \/ \E id \in DOMAIN frames : ReplaceEntry(id)
    \/ \E id \in DOMAIN frames : ReplaceReturn(id)
    \/ \E id \in DOMAIN frames : RealignParse(id)
    \/ \E id \in DOMAIN frames : RealignEntry(id)
    \/ \E id \in DOMAIN frames : RealignReturn(id)

SpecConcurrent == InitConcurrent /\ [][NextConcurrent]_vars

\* what the call of a frame returns when it is the only call
Alone(frame) ==
    IF frame.function = "replace_line_with_chords"
    THEN replace_line_with_chords(frame.args.full_text, frame.args.text_line_index,
                                  frame.args.new_line_text)
    ELSE realign_chords(frame.args.original_text, frame.args.rewritten_content)

(***************************************************************************)
(* C18.  There is no state shared between calls: in every interleaving of  *)
(* the statements of concurrent calls of replace_line_with_chords and      *)
(* realign_chords, each call returns what it returns when it runs alone,   *)
(* and no statement changes the arguments of any call.                     *)
(***************************************************************************)
C18_NoSharedState ==
    /\ [](\A id \in DOMAIN frames :
              frames[id].pc = "returned" => frames[id].returned = Alone(frames[id]))
    /\ [][\A id \in DOMAIN frames : frames'[id].args = frames[id].args]_vars

\* a call has returned while a call of the other function, on another
\* document, is between two of its statements
C18_Witness ==
    \E id \in DOMAIN frames : \E other \in DOMAIN frames :
        /\ frames[id].pc = "returned"
        /\ frames[other].pc \notin {"start", "returned"}
        /\ frames[other].locals.parsed # frames[id].locals.parsed
        /\ frames[id].function # frames[other].function

(***************************************************************************)
(* inline_to_above_line: the normalizer of the inline notation, in which a *)
(* chord is written in the text as a bracket marker, "[G]word".  A marker  *)
(* is a "[", one or more characters other than "]", and a "]"; the line is *)
(* scanned from the left for markers that do not overlap.                  *)
(***************************************************************************)
\* the index of the first "]" after index i, 0 when there is none
first_close(line, i) ==
    LET closes == { j \in (i + 1)..Len(line) : line[j] = "]" }
    IN  IF closes = {} THEN 0 ELSE CHOOSE j \in closes : \A m \in closes : j <= m

\* the index at or after pos at which the next marker starts, 0 when there is none
next_marker(line, pos) ==
    LET starts == { i \in pos..Len(line) :
                      line[i] = "[" /\ first_close(line, i) > i + 1 }
    IN  IF starts = {} THEN 0 ELSE CHOOSE i \in starts : \A m \in starts : i <= m

\* the chord buffer is not padded before a chord is appended
pad_none(chord_line, length) == chord_line

\* the chord buffer padded with spaces until it has the length of the lyric buffer
pad(chord_line, length) ==
    chord_line \o Spaces(Max(length - Len(chord_line), 0))

RECURSIVE scan_markers(_, _, _, _)
\* the scan: for every marker the text before it is appended to the lyric
\* buffer, the chord buffer is padded and the chord is appended to it; the
\* text after the last marker is appended to the lyric buffer
scan_markers(line, pos, chord_line, lyric_line) ==
    LET start == next_marker(line, pos)
    IN  IF start = 0
        THEN [chords |-> chord_line,
              text |-> lyric_line \o SubSeq(line, pos, Len(line))]
        ELSE LET close == first_close(line, start)
                 lyric == lyric_line \o SubSeq(line, pos, start - 1)
             IN  scan_markers(line, close + 1,
                              pad(chord_line, Len(lyric))
                                  \o SubSeq(line, start + 1, close - 1),
                              lyric)

\* the chord line is emitted whenever the line has a "["
inline_to_above_line_always_two(line) ==
    IF \A c \in 1..Len(line) : line[c] # "["
    THEN line
    ELSE LET scanned == scan_markers(line, 1, <<>>, <<>>)
         IN  join_newline(<<scanned.chords, scanned.text>>)

inline_to_above_line(line) ==
    IF \A c \in 1..Len(line) : line[c] # "["
    THEN line
    ELSE LET scanned == scan_markers(line, 1, <<>>, <<>>)
         IN  IF strip(scanned.chords) # <<>>
             THEN join_newline(<<scanned.chords, scanned.text>>)
             ELSE scanned.text

(***************************************************************************)
(* Specification of the normalizer: one call of inline_to_above_line on a  *)
(* line made of markers, text and stray brackets.                          *)
(***************************************************************************)
InlinePieces ==
    { <<"[", "G", "]">>, <<"[", "A", "m", "]">>, <<"[", " ", "]">>,
      <<"a", "b">>, <<" ">>, <<"[">> }

InlineLines ==
    { Concat(ps) : ps \in UNION { [1..n -> InlinePieces] : n \in 0..MaxInlinePieces } }

InitNormalizer ==
    /\ called = "none"
    /\ args \in { [line |-> l] : l \in InlineLines }
    /\ returned = "none"
    /\ frames = <<>>
    /\ ServicesIdle

CallInlineToAboveLine ==
    /\ called = "none"
    /\ called' = "inline_to_above_line"
    /\ returned' = inline_to_above_line(args.line)
    /\ UNCHANGED <<args, frames, service_vars>>

NextNormalizer == CallInlineToAboveLine

SpecNormalizer == InitNormalizer /\ [][NextNormalizer]_vars

\* index j holds the "]" that closes a bracket opened at index i
ClosedAt(line, i, j) ==
    /\ i < j
    /\ line[i] = "["
    /\ line[j] = "]"
    /\ \A m \in (i + 1)..(j - 1) : line[m] # "]"

\* the markers of a line, as pairs of the indexes of their brackets: a
\* bracket pair with something between that is not inside an earlier pair
Markers(line) ==
    { m \in (1..Len(line)) \X (1..Len(line)) :
        /\ ClosedAt(line, m[1], m[2])
        /\ m[2] > m[1] + 1
        /\ \A i \in 1..(m[1] - 1) :
              line[i] = "[" => \E c \in (i + 1)..(m[1] - 1) : line[c] = "]" }

InMarker(line, c) == \E m \in Markers(line) : m[1] <= c /\ c <= m[2]

\* the number of characters before index c that belong to no marker
LyricColumn(line, c) == Cardinality({ b \in 1..(c - 1) : ~InMarker(line, b) })

\* text is the line without its markers
IsLineWithoutMarkers(text, line) ==
    /\ Len(text) = LyricColumn(line, Len(line) + 1)
    /\ \A c \in 1..Len(line) :
          ~InMarker(line, c) => text[LyricColumn(line, c) + 1] = line[c]

HasNonWhitespace(s) == \E c \in 1..Len(s) : s[c] \notin Whitespace

(***************************************************************************)
(* C19.  A line without a "[" is returned unchanged, as a single line.  A  *)
(* line with markers always gives the lyric line, which is the line        *)
(* without its markers, and above it a chord line only if that chord line  *)
(* has a character that is not whitespace.                                 *)
(***************************************************************************)
C19_NormalizerPassthrough ==
    called = "inline_to_above_line" =>
        LET line == args.line
            out == split_newline(returned)
        IN  /\ (\A c \in 1..Len(line) : line[c] # "[") => returned = line
            /\ Markers(line) # {} =>
                  /\ Len(out) \in {1, 2}
                  /\ IsLineWithoutMarkers(out[Len(out)], line)
                  /\ Len(out) = 2 => HasNonWhitespace(out[1])
                  /\ Len(out) = 2 <=>
                         \E m \in Markers(line) :
                             HasNonWhitespace(SubSeq(line, m[1] + 1, m[2] - 1))

\* a line whose only markers hold whitespace was returned without a chord line
C19_Witness ==
    /\ called = "inline_to_above_line"
    /\ Markers(args.line) # {}
    /\ Len(returned) < Len(args.line)
    /\ Len(split_newline(returned)) = 1
    /\ HasNonWhitespace(returned)

\* the markers of a line from left to right
RECURSIVE MarkersInOrder(_, _)
MarkersInOrder(line, markers) ==
    IF markers = {} THEN <<>>
    ELSE LET first == CHOOSE m \in markers : \A o \in markers : m[1] <= o[1]
         IN  <<first>> \o MarkersInOrder(line, markers \ {first})

ChordOf(line, m) == SubSeq(line, m[1] + 1, m[2] - 1)

\* the column at which the chord of the k-th marker starts: the column of the
\* lyric character that follows the marker, or the end of the chords before it
\* when they reach beyond that column
RECURSIVE ChordColumn(_, _, _)
ChordColumn(line, ms, k) ==
    IF k = 1
    THEN LyricColumn(line, ms[1][1])
    ELSE Max(LyricColumn(line, ms[k][1]),
             ChordColumn(line, ms, k - 1) + Len(ChordOf(line, ms[k - 1])))

(***************************************************************************)
(* C20.  For each marker, from left to right, the chord is appended to the *)
(* chord line after the chord line has been padded with spaces up to the   *)
(* length of the lyric text before the marker.  So each chord starts at    *)
(* the column of the lyric character that follows its marker, unless the   *)
(* chord line is already longer than that column, in which case it starts  *)
(* where the chord line ended, and the chords are in the order of their    *)
(* markers; the chord line holds nothing else but the padding.             *)
(***************************************************************************)
C20_NormalizerAlignment ==
    (called = "inline_to_above_line" /\ Len(split_newline(returned)) = 2) =>
        LET line == args.line
            chord_line == split_newline(returned)[1]
            ms == MarkersInOrder(line, Markers(line))
        IN  /\ ms # <<>>
            /\ Len(chord_line) =
                   ChordColumn(line, ms, Len(ms)) + Len(ChordOf(line, ms[Len(ms)]))
            /\ \A k \in 1..Len(ms) :
                   OccursAt(chord_line, ChordColumn(line, ms, k), ChordOf(line, ms[k]))
            /\ \A c \in 1..Len(chord_line) :
                   (\A k \in 1..Len(ms) :
                        \/ c - 1 < ChordColumn(line, ms, k)
                        \/ c - 1 >= ChordColumn(line, ms, k) + Len(ChordOf(line, ms[k])))
                       => chord_line[c] = " "

\* two chords were written, the second above the lyric character that follows
\* its marker, after padding
C20_Witness ==
    /\ called = "inline_to_above_line"
    /\ Len(split_newline(returned)) = 2
    /\ LET line == args.line
           ms == MarkersInOrder(line, Markers(line))
       IN  /\ Len(ms) = 2
           /\ HasNonWhitespace(ChordOf(line, ms[1]))
           /\ ChordColumn(line, ms, 2) = LyricColumn(line, ms[2][1])
           /\ ChordColumn(line, ms, 2) > ChordColumn(line, ms, 1) + Len(ChordOf(line, ms[1]))

(***************************************************************************)
(* RateLimiter (auth/rate_limit.py): a sliding-window limiter keyed by the *)
(* client.  A request is a record of the value of its X-Forwarded-For      *)
(* header (None when the header is missing) and the host of its client     *)
(* (None when request.client is None).  time.monotonic() is the variable   *)
(* clock, which never goes back.                                           *)
(***************************************************************************)
unknown == <<"u", "n", "k", "n", "o", "w", "n">>

\* forwarded.split(",")[0]
first_of_split_comma(forwarded) ==
    LET commas == { c \in 1..Len(forwarded) : forwarded[c] = "," }
    IN  IF commas = {} THEN forwarded
        ELSE SubSeq(forwarded, 1, (CHOOSE c \in commas : \A d \in commas : c <= d) - 1)

\* the client host is the key even when the header is there
_client_ip_ignores_header(request) ==
    IF request.client_host # None THEN request.client_host ELSE unknown

_client_ip(request) ==
    IF request.forwarded # None /\ request.forwarded # <<>>
    THEN strip(first_of_split_comma(request.forwarded))
    ELSE IF request.client_host # None THEN request.client_host ELSE unknown

\* self._attempts[ip] of a defaultdict(list): a missing key reads as []
attempts_of(attempts, ip) ==
    IF ip \in DOMAIN attempts THEN attempts[ip] ELSE <<>>

\* self._attempts[ip] = value
set_attempts(attempts, ip, value) ==
    [k \in DOMAIN attempts \cup {ip} |-> IF k = ip THEN value ELSE attempts[k]]

\* [t for t in self._attempts[ip] if t > cutoff]
prune(times, cutoff) ==
    SelectSeq(times, LAMBDA t : t > cutoff)

\* the limit is reached only with more than max_attempts attempts
over_limit_off_by_one(times) == Len(times) > max_attempts

\* len(self._attempts[ip]) >= self.max_attempts
over_limit(times) == Len(times) >= max_attempts

\* the attempt is recorded before the limit is tested, so a rejected check
\* is recorded too
check_records_rejected(attempts, request, now) ==
    LET ip == _client_ip(request)
        cutoff == now - window_seconds
        kept == prune(attempts_of(attempts, ip), cutoff)
    IN  IF over_limit(kept)
        THEN [attempts |-> set_attempts(attempts, ip, Append(kept, now)),
              raised |-> "HTTPException", status_code |-> 429]
        ELSE [attempts |-> set_attempts(attempts, ip, Append(kept, now)),
              raised |-> "none", status_code |-> 0]

\* RateLimiter.check: the attempts stored after the call, and whether it raised
check(attempts, request, now) ==
    LET ip == _client_ip(request)
        cutoff == now - window_seconds
        kept == prune(attempts_of(attempts, ip), cutoff)
    IN  IF over_limit(kept)
        THEN [attempts |-> set_attempts(attempts, ip, kept),
              raised |-> "HTTPException", status_code |-> 429]
        ELSE [attempts |-> set_attempts(attempts, ip, Append(kept, now)),
              raised |-> "none", status_code |-> 0]

(***************************************************************************)
(* Specification of the rate limiter: requests of several clients are      *)
(* checked while time passes.                                              *)
(***************************************************************************)
LimiterRequests ==
    { [forwarded |-> <<"A", ",", " ", "B">>, client_host |-> <<"B">>],
      [forwarded |-> <<" ", "A", " ">>, client_host |-> None],
      [forwarded |-> <<>>, client_host |-> <<"B">>],
      [forwarded |-> None, client_host |-> <<"B">>],
      [forwarded |-> None, client_host |-> None] }

InitLimiter ==
    /\ called = "none"
    /\ args = <<>>
    /\ returned = "none"
    /\ frames = <<>>
    /\ ServicesIdle

\* time passes
Tick ==
    /\ clock < MaxClock
    /\ clock' = clock + 1
    /\ UNCHANGED <<called, args, returned, frames, _attempts, history, db, accepted_by_refresh>>

Check ==
    /\ Len(history) < MaxChecks
    /\ \E request \in LimiterRequests :
          LET outcome == check(_attempts, request, clock)
          IN  /\ called' = "check"
              /\ args' = [request |-> request]
              /\ returned' = [raised |-> outcome.raised, status_code |-> outcome.status_code]
              /\ _attempts' = outcome.attempts
              /\ history' = Append(history, [ip |-> _client_ip(request), now |-> clock,
                                             accepted |-> outcome.raised = "none"])
    /\ UNCHANGED <<frames, clock, db, accepted_by_refresh>>

NextLimiter == Tick \/ Check

SpecLimiter == InitLimiter /\ [][NextLimiter]_vars

\* the checks before check n that were accepted for the same key and lie
\* within the window of check n
AcceptedInWindow(n) ==
    { m \in 1..(n - 1) :
        /\ history[m].ip = history[n].ip
        /\ history[m].accepted
        /\ history[m].now > history[n].now - window_seconds }

(***************************************************************************)
(* C21.  For each client key the number of recorded attempts within the    *)
(* last window_seconds never exceeds max_attempts, the recorded attempts   *)
(* are times of accepted checks, and a check is accepted exactly when      *)
(* fewer than max_attempts accepted checks of its key lie within its       *)
(* window: the first max_attempts checks inside a window pass and every    *)
(* further check inside it raises HTTP 429.                                *)
(***************************************************************************)
C21_RateLimiterBound ==
    /\ \A ip \in DOMAIN _attempts :
          /\ Cardinality({ k \in 1..Len(_attempts[ip]) :
                             _attempts[ip][k] > clock - window_seconds }) <= max_attempts
          /\ \A k \in 1..Len(_attempts[ip]) :
                \E n \in 1..Len(history) :
                    /\ history[n].ip = ip
                    /\ history[n].accepted
                    /\ history[n].now = _attempts[ip][k]
    /\ \A n \in 1..Len(history) :
          history[n].accepted <=> Cardinality(AcceptedInWindow(n)) < max_attempts
    /\ called = "check" =>
          IF history[Len(history)].accepted
          THEN returned.raised = "none"
          ELSE returned = [raised |-> "HTTPException", status_code |-> 429]

\* a check was rejected after max_attempts accepted checks of its key that
\* were not all made at the same time
C21_Witness ==
    /\ called = "check"
    /\ returned.raised = "HTTPException"
    /\ Cardinality(AcceptedInWindow(Len(history))) = max_attempts
    /\ \E m \in AcceptedInWindow(Len(history)) : history[m].now < clock

\* the first entry of a header value: the text before its first comma,
\* without the whitespace around it
FirstEntry(value) ==
    LET ends == { c \in 0..Len(value) :
                    /\ \A d \in 1..c : value[d] # ","
                    /\ c = Len(value) \/ value[c + 1] = "," }
        field == SubSeq(value, 1, CHOOSE c \in ends : TRUE)
        solid == { c \in 1..Len(field) : field[c] \notin Whitespace }
    IN  IF solid = {} THEN <<>>
        ELSE SubSeq(field,
                    CHOOSE c \in solid : \A d \in solid : c <= d,
                    CHOOSE c \in solid : \A d \in solid : c >= d)

\* a step that is a check of a request of key ip leaves the attempts of every
\* other key as they were
OtherKeysUntouched ==
    (history' # history) =>
        LET ip == history'[Len(history')].ip
        IN  \A other \in (DOMAIN _attempts \cup DOMAIN _attempts') \ {ip} :
                /\ other \in DOMAIN _attempts
                /\ other \in DOMAIN _attempts'
                /\ _attempts'[other] = _attempts[other]

\* the outcome of every check is decided by the earlier checks of its own key
OutcomeByOwnKey ==
    \A n \in 1..Len(history) :
        history[n].accepted <=> Cardinality(AcceptedInWindow(n)) < max_attempts

(***************************************************************************)
(* C22 as stated.  A check for one client key never changes the recorded   *)
(* attempts or the outcome for any other key; the key is the first entry   *)
(* of the X-Forwarded-For header when the header is present, else the host *)
(* of the client of the connection, else "unknown".                        *)
(***************************************************************************)
C22_KeyWheneverHeaderPresent ==
    /\ [][OtherKeysUntouched]_vars
    /\ [](OutcomeByOwnKey)
    /\ [](called = "check" =>
             history[Len(history)].ip =
                 IF args.request.forwarded # None
                 THEN FirstEntry(args.request.forwarded)
                 ELSE IF args.request.client_host # None
                      THEN args.request.client_host
                      ELSE unknown)

(***************************************************************************)
(* C22.  A check for one client key never changes the recorded attempts or *)
(* the outcome for any other key; the key is the first entry of the        *)
(* X-Forwarded-For header when the header is present and its value is not  *)
(* empty, else the host of the client of the connection, else "unknown".   *)
(***************************************************************************)
C22_KeysIndependent ==
    /\ [][OtherKeysUntouched]_vars
    /\ [](OutcomeByOwnKey)
    /\ [](called = "check" =>
             history[Len(history)].ip =
                 IF args.request.forwarded # None /\ args.request.forwarded # <<>>
                 THEN FirstEntry(args.request.forwarded)
                 ELSE IF args.request.client_host # None
                      THEN args.request.client_host
                      ELSE unknown)

\* a request with a header was accepted for the first entry of the header
\* while the key of its client host was blocked
C22_Witness ==
    /\ called = "check"
    /\ args.request.forwarded # None
    /\ args.request.forwarded # <<>>
    /\ args.request.client_host # None
    /\ returned.raised = "none"
    /\ history[Len(history)].ip # args.request.client_host
    /\ \E n \in 1..Len(history) :
          /\ history[n].ip = args.request.client_host
          /\ ~history[n].accepted
          /\ history[n].now = clock

\* times is what remains of before when the entries that are window_seconds
\* old or older at time now are dropped
IsPrunedAt(times, before, now) ==
    LET fresh == { k \in 1..Len(before) : before[k] > now - window_seconds }
    IN  /\ Len(times) = Cardinality(fresh)
        /\ \A k \in fresh :
              times[Cardinality({ j \in fresh : j <= k })] = before[k]

\* a step that is a rejected check records no attempt: the attempts of its
\* key are pruned and those of every other key are left as they were
RejectedRecordsNothing ==
    (history' # history /\ ~history'[Len(history')].accepted) =>
        LET ip == history'[Len(history')].ip
        IN  /\ returned'.status_code = 429
            /\ \A k \in DOMAIN _attempts' :
                  IF k = ip
                  THEN IsPrunedAt(_attempts'[k], attempts_of(_attempts, k), clock)
                  ELSE k \in DOMAIN _attempts /\ _attempts'[k] = _attempts[k]

\* the accepted checks before check n, for the same key, that are not older
\* than window_seconds at check n
AcceptedNotOlder(n) ==
    { m \in 1..(n - 1) :
        /\ history[m].ip = history[n].ip
        /\ history[m].accepted
        /\ history[n].now - history[m].now <= window_seconds }

(***************************************************************************)
(* C30.  A check rejected with 429 records no attempt and leaves the       *)
(* stored attempts of every key unchanged apart from pruning expired ones; *)
(* an attempt does not count once it is older than window_seconds.  So a   *)
(* client is accepted whenever fewer than max_attempts of its accepted     *)
(* attempts remain inside the window, however many of its requests were    *)
(* rejected in the meantime.                                               *)
(***************************************************************************)
C30_RateLimiterRecovery ==
    /\ [][RejectedRecordsNothing]_vars
    /\ [](\A n \in 1..Len(history) :
              /\ Cardinality(AcceptedNotOlder(n)) < max_attempts => history[n].accepted
              /\ ~history[n].accepted =>
                     Cardinality(AcceptedNotOlder(n)) >= max_attempts)

\* a client that was rejected, and rejected again later, is accepted once
\* its attempts have left the window
C30_Witness ==
    /\ called = "check"
    /\ returned.raised = "none"
    /\ LET last == Len(history)
       IN  \E m \in 1..last : \E n \in 1..last :
               /\ m < n
               /\ history[m].ip = history[last].ip
               /\ history[n].ip = history[last].ip
               /\ ~history[m].accepted
               /\ ~history[n].accepted
               /\ history[m].now < history[n].now
               /\ Cardinality({ a \in 1..(m - 1) :
                                  history[a].ip = history[last].ip /\ history[a].accepted })
                      = max_attempts


(***************************************************************************)
(* Refresh-token rotation: POST /auth/refresh and POST /auth/logout.       *)
(* A row of the refresh_tokens table is kept under its token, which the    *)
(* table declares unique; the handlers run one request at a time, and a    *)
(* handler that raises leaves the session uncommitted, so the rows are the *)
(* ones of the last commit.                                                *)
(***************************************************************************)
\* the values secrets.token_hex(32) returns
TokenStrings == {"t1", "t2", "t3", "t4"}

\* what create_refresh_token() can return at the time now: a random token
\* and its expiry
create_refresh_token(now) ==
    { [token |-> t, expires_at |-> now + RefreshTokenLifetime] : t \in TokenStrings }

\* the query of the active user of a row: User.id == user_id, is_active True
active_user(users, user_id) ==
    user_id \in DOMAIN users /\ users[user_id].is_active

\* the query of refresh: RefreshToken.token == token, revoked False
unrevoked_row(rows, token) ==
    token \in DOMAIN rows /\ ~rows[token].revoked

revoke(rows, token) ==
    [rows EXCEPT ![token] = [@ EXCEPT !.revoked = TRUE]]

add_row(rows, token, row) ==
    [k \in DOMAIN rows \cup {token} |-> IF k = token THEN row ELSE rows[k]]

no_token(database, attempts, status_code) ==
    [db |-> database, attempts |-> attempts, status_code |-> status_code,
     issued |-> FALSE, refresh_token |-> ""]

\* refresh that leaves the presented token usable
refresh_keeps_old_token(database, attempts, request, refresh_token, now, created) ==
    LET limited == check(attempts, request, now)
        rows == database.refresh_tokens
    IN  IF limited.raised # "none"
        THEN no_token(database, limited.attempts, limited.status_code)
        ELSE IF ~unrevoked_row(rows, refresh_token) \/ rows[refresh_token].expires_at < now
        THEN no_token(database, limited.attempts, 401)
        ELSE IF ~active_user(database.users, rows[refresh_token].user_id)
        THEN no_token(database, limited.attempts, 401)
        ELSE IF created.token \in DOMAIN rows
        THEN no_token(database, limited.attempts, 500)
        ELSE [db |-> [database EXCEPT !.refresh_tokens =
                        add_row(rows, created.token,
                                [user_id |-> rows[refresh_token].user_id,
                                 expires_at |-> created.expires_at,
                                 revoked |-> FALSE])],
              attempts |-> limited.attempts, status_code |-> 200,
              issued |-> TRUE, refresh_token |-> created.token]

\* the handler of POST /auth/refresh: the rate limiter first, then the row
\* of the presented token, its expiry, the revocation, the active user, the
\* new row and the commit; the commit of a token that is already in the
\* table is refused by the unique constraint
refresh(database, attempts, request, refresh_token, now, created) ==
    LET limited == check(attempts, request, now)
        rows == database.refresh_tokens
    IN  IF limited.raised # "none"
        THEN no_token(database, limited.attempts, limited.status_code)
        ELSE IF ~unrevoked_row(rows, refresh_token) \/ rows[refresh_token].expires_at < now
        THEN no_token(database, limited.attempts, 401)
        ELSE IF ~active_user(database.users, rows[refresh_token].user_id)
        THEN no_token(database, limited.attempts, 401)
        ELSE IF created.token \in DOMAIN rows
        THEN no_token(database, limited.attempts, 500)
        ELSE [db |-> [database EXCEPT !.refresh_tokens =
                        add_row(revoke(rows, refresh_token), created.token,
                                [user_id |-> rows[refresh_token].user_id,
                                 expires_at |-> created.expires_at,
                                 revoked |-> FALSE])],
              attempts |-> limited.attempts, status_code |-> 200,
              issued |-> TRUE, refresh_token |-> created.token]

\* the handler of POST /auth/logout
logout(database, refresh_token) ==
    IF refresh_token \in DOMAIN database.refresh_tokens
    THEN [database EXCEPT !.refresh_tokens = revoke(@, refresh_token)]
    ELSE database

\* the requests of the client of the token endpoints
AuthRequests ==
    { request \in LimiterRequests :
        request.forwarded = None /\ request.client_host # None }

\* the login of an active user and the login of a user who has been
\* deactivated since
InitAuth ==
    /\ called = "none"
    /\ args = <<>>
    /\ returned = "none"
    /\ frames = <<>>
    /\ _attempts = <<>>
    /\ clock = 0
    /\ history = <<>>
    /\ db = [users |-> [id \in {1, 2} |-> [is_active |-> id = 1]],
             refresh_tokens |->
                 [t \in {"t1", "t2"} |->
                     [user_id |-> IF t = "t1" THEN 1 ELSE 2,
                      expires_at |-> RefreshTokenLifetime,
                      revoked |-> FALSE]],
             songs |-> <<>>, song_revisions |-> <<>>]
    /\ accepted_by_refresh = [t \in TokenStrings |-> 0]

Refresh ==
    /\ \E request \in AuthRequests, refresh_token \in TokenStrings :
       \E created \in create_refresh_token(clock) :
          LET outcome == refresh(db, _attempts, request, refresh_token, clock, created)
          IN  /\ called' = "refresh"
              /\ args' = [request |-> request, refresh_token |-> refresh_token]
              /\ returned' = [status_code |-> outcome.status_code,
                              issued |-> outcome.issued,
                              refresh_token |-> outcome.refresh_token]
              /\ _attempts' = outcome.attempts
              /\ db' = outcome.db
              /\ accepted_by_refresh' =
                    IF outcome.status_code = 200
                    THEN [accepted_by_refresh EXCEPT ![refresh_token] = @ + 1]
                    ELSE accepted_by_refresh
    /\ UNCHANGED <<frames, clock, history>>

Logout ==
    /\ \E refresh_token \in TokenStrings :
          /\ called' = "logout"
          /\ args' = [refresh_token |-> refresh_token]
          /\ returned' = [status_code |-> 200, issued |-> FALSE, refresh_token |-> ""]
          /\ db' = logout(db, refresh_token)
    /\ UNCHANGED <<frames, _attempts, clock, history, accepted_by_refresh>>

NextAuth == Tick \/ Refresh \/ Logout

SpecAuth == InitAuth /\ [][NextAuth]_vars

\* the step is a request to refresh, or to logout
RefreshStep == called' = "refresh" /\ clock' = clock
LogoutStep == called' = "logout" /\ clock' = clock

\* before the step, the token is not in the table, or is revoked, or has expired
NotUsable(token) ==
    \/ token \notin DOMAIN db.refresh_tokens
    \/ db.refresh_tokens[token].revoked
    \/ db.refresh_tokens[token].expires_at < clock

AcceptedAtMostOnce == \A token \in TokenStrings : accepted_by_refresh[token] <= 1

\* a successful refresh revokes the presented token and issues another one
SuccessRotates ==
    (RefreshStep /\ returned'.status_code = 200) =>
        /\ ~NotUsable(args'.refresh_token)
        /\ db'.refresh_tokens[args'.refresh_token].revoked
        /\ returned'.issued
        /\ returned'.refresh_token # args'.refresh_token
        /\ returned'.refresh_token \notin DOMAIN db.refresh_tokens
        /\ unrevoked_row(db'.refresh_tokens, returned'.refresh_token)

LogoutRevokes ==
    (LogoutStep /\ args'.refresh_token \in DOMAIN db.refresh_tokens) =>
        db'.refresh_tokens[args'.refresh_token].revoked

\* the answer to a refresh presenting a token that is not usable is one of codes
Refused(codes) ==
    (RefreshStep /\ NotUsable(args'.refresh_token)) =>
        /\ returned'.status_code \in codes
        /\ ~returned'.issued
        /\ DOMAIN db'.refresh_tokens = DOMAIN db.refresh_tokens

\* C23 (as stated): a refresh token is accepted by refresh at most once; a
\* successful refresh revokes the presented token and issues a different
\* one; logout revokes the presented token; a refresh presenting a revoked,
\* expired or unknown token returns 401 and issues no token.
C23_RefusedWith401 ==
    /\ []AcceptedAtMostOnce
    /\ [][SuccessRotates /\ LogoutRevokes /\ Refused({401})]_vars

\* C23 (amended): as above, but the refresh presenting a revoked, expired or
\* unknown token is answered 401, or 429 when the rate limiter rejects the
\* request before the token is looked at; in both cases no token is issued.
C23_SingleUseRotation ==
    /\ []AcceptedAtMostOnce
    /\ [][SuccessRotates /\ LogoutRevokes /\ Refused({401, 429})]_vars

\* a token has been rotated, and the rotated token has been presented again
\* and refused
C23_Witness ==
    /\ called = "refresh"
    /\ returned.status_code = 401
    /\ accepted_by_refresh[args.refresh_token] = 1
    /\ db.refresh_tokens[args.refresh_token].revoked


(***************************************************************************)
(* Song versions and revisions: POST /songs and the chat endpoints.  The   *)
(* chat handler loads the song into its session, awaits the reply of the   *)
(* model, and then changes the loaded song and commits; other requests are *)
(* served while it waits.  frames holds the chats that are waiting, each   *)
(* with the song as its session loaded it.                                 *)
(***************************************************************************)
\* what result["rewritten_content"] can be: None, or the rewritten song
ChatContents == {None, <<"G">>}

revisions_of(song_revisions, song_id) ==
    SelectSeq(song_revisions, LAMBDA revision : revision.song_id = song_id)

\* the handler of POST /songs: the song with current_version 1 is committed,
\* then its first revision
create_song(database) ==
    LET id == Len(database.songs) + 1
    IN  [database EXCEPT
            !.songs = Append(@, [current_version |-> 1]),
            !.song_revisions = Append(@, [song_id |-> id, version |-> 1,
                                          edit_type |-> "full"])]

\* _persist_chat_result on the song of the session: the song after the call
\* and the revisions added to the session
_persist_chat_result(song, song_id, rewritten_content) ==
    IF rewritten_content # None
    THEN LET bumped == [song EXCEPT !.current_version = @ + 1]
         IN  [song |-> bumped,
              added |-> <<[song_id |-> song_id, version |-> bumped.current_version,
                           edit_type |-> "chat"]>>]
    ELSE [song |-> song, added |-> <<>>]

\* db.commit(): the attributes of the song that the session changed are
\* written to its row, and the added rows are inserted
commit(database, song_id, loaded, song, added) ==
    [database EXCEPT
        !.songs = IF song # loaded THEN [@ EXCEPT ![song_id] = song] ELSE @,
        !.song_revisions = @ \o added]

InitSongs ==
    /\ called = "none"
    /\ args = <<>>
    /\ returned = "none"
    /\ frames = <<>>
    /\ ServicesIdle

CreateSong ==
    /\ Len(db.songs) < MaxSongs
    /\ called' = "create_song"
    /\ args' = <<>>
    /\ returned' = [song_id |-> Len(db.songs) + 1, version |-> 1]
    /\ db' = create_song(db)
    /\ UNCHANGED <<frames, _attempts, clock, history, accepted_by_refresh>>

\* the chat handler up to its await: song = get_user_song(db, ...)
ChatLoad ==
    /\ Len(db.song_revisions) + Cardinality(DOMAIN frames) < MaxRevisions
    /\ \E id \in (1..MaxCalls) \ DOMAIN frames, song_id \in DOMAIN db.songs :
          /\ called' = "get_user_song"
          /\ args' = [song_id |-> song_id]
          /\ returned' = db.songs[song_id]
          /\ frames' = [k \in DOMAIN frames \cup {id} |->
                           IF k = id
                           THEN [song_id |-> song_id, song |-> db.songs[song_id]]
                           ELSE frames[k]]
    /\ UNCHANGED service_vars

\* the chat handler after its await: the result is persisted and committed
ChatPersist ==
    /\ \E id \in DOMAIN frames, rewritten_content \in ChatContents :
          LET frame == frames[id]
              result == _persist_chat_result(frame.song, frame.song_id, rewritten_content)
          IN  /\ called' = "chat"
              /\ args' = [song_id |-> frame.song_id,
                          rewritten_content |-> rewritten_content]
              /\ returned' = [status_code |-> 200,
                              version |-> result.song.current_version]
              /\ db' = commit(db, frame.song_id, frame.song, result.song, result.added)
              /\ frames' = [k \in DOMAIN frames \ {id} |-> frames[k]]
    /\ UNCHANGED <<_attempts, clock, history, accepted_by_refresh>>

\* the call of the model raises: the handler answers 502 and nothing is
\* persisted
ChatFail ==
    /\ \E id \in DOMAIN frames :
          /\ called' = "chat"
          /\ args' = [song_id |-> frames[id].song_id, rewritten_content |-> None]
          /\ returned' = [status_code |-> 502, version |-> 0]
          /\ frames' = [k \in DOMAIN frames \ {id} |-> frames[k]]
    /\ UNCHANGED service_vars

NextSongs == CreateSong \/ ChatLoad \/ ChatPersist \/ ChatFail

SpecSongs == InitSongs /\ [][NextSongs]_vars

VersionsOf(database, song_id) ==
    LET revisions == revisions_of(database.song_revisions, song_id)
    IN  [i \in 1..Len(revisions) |-> revisions[i].version]

\* the revisions of every song have the versions 1..current_version, once each
RevisionsInStep ==
    \A song_id \in DOMAIN db.songs :
       LET versions == VersionsOf(db, song_id)
       IN  /\ Len(versions) = db.songs[song_id].current_version
           /\ \A v \in 1..db.songs[song_id].current_version :
                 \E i \in DOMAIN versions : versions[i] = v

CreateStoresFirst ==
    (called' = "create_song" /\ Len(db'.songs) = Len(db.songs) + 1) =>
        /\ db'.songs[Len(db'.songs)].current_version = 1
        /\ VersionsOf(db', Len(db'.songs)) = <<1>>

\* the step is a chat result that has been persisted
ChatStep ==
    /\ called' = "chat"
    /\ returned'.status_code = 200
    /\ DOMAIN frames' # DOMAIN frames

\* a chat result with content adds 1 to the version and one revision with the
\* new version; a chat result without content changes neither
ChatResultCounts ==
    ChatStep =>
        LET song_id == args'.song_id
            before == db.songs[song_id].current_version
            after == db'.songs[song_id].current_version
        IN  IF args'.rewritten_content # None
            THEN /\ after = before + 1
                 /\ VersionsOf(db', song_id) = Append(VersionsOf(db, song_id), after)
            ELSE /\ after = before
                 /\ VersionsOf(db', song_id) = VersionsOf(db, song_id)

\* C24: creating a song sets current_version to 1 and stores revision 1; a
\* chat result with rewritten content increases current_version by exactly 1
\* and stores one revision with the new version; a chat result without
\* rewritten content changes neither; so the revisions of a song always have
\* the versions 1..current_version, with no gap and no duplicate.
C24_VersionsInStep ==
    /\ []RevisionsInStep
    /\ [][CreateStoresFirst /\ ChatResultCounts]_vars


(***************************************************************************)
(* C25.  Snap picks the nearest boundary, ties going left: for             *)
(* 0 < pos < len(text), _snap_to_boundary returns pos when text[pos-1] is  *)
(* a space; otherwise, with left the largest boundary <= pos and right the *)
(* smallest boundary >= pos, it returns left when pos - left <= right -    *)
(* pos, and right otherwise.                                               *)
(***************************************************************************)
Boundaries(text) == { p \in 0..Len(text) : IsBoundary(text, p) }

LeftBoundary(text, pos) ==
    CHOOSE l \in Boundaries(text) :
        l <= pos /\ \A b \in Boundaries(text) : b <= pos => b <= l

RightBoundary(text, pos) ==
    CHOOSE r \in Boundaries(text) :
        r >= pos /\ \A b \in Boundaries(text) : b >= pos => b >= r

C25_SnapNearestTiesLeft ==
    (/\ called = "_snap_to_boundary"
     /\ args.pos > 0
     /\ args.pos < Len(args.text)) =>
        IF args.text[args.pos] = " "
        THEN returned = args.pos
        ELSE LET left == LeftBoundary(args.text, args.pos)
                 right == RightBoundary(args.text, args.pos)
             IN  returned = IF args.pos - left <= right - args.pos THEN left ELSE right

\* a position in the middle of a word, as far from the boundary on its left
\* as from the one on its right and with the word not at the start of the
\* text, that was snapped to the left
C25_Witness ==
    /\ called = "_snap_to_boundary"
    /\ args.pos > 0
    /\ args.pos < Len(args.text)
    /\ args.text[args.pos] # " "
    /\ LET left == LeftBoundary(args.text, args.pos)
           right == RightBoundary(args.text, args.pos)
       IN  /\ left > 0
           /\ args.pos - left = right - args.pos
           /\ returned = left


(***************************************************************************)
(* C26.  Proportional placement with leftward priority: the target column  *)
(* of every token is snap(floor(old_position * len(new_line) /             *)
(* max(len(old_line), 1))); the tokens are written in their original       *)
(* order, the leftmost exactly at its target column, and every later one   *)
(* at the smallest column >= its target at which all of its characters     *)
(* fall on free cells, never left of its target and never over an earlier  *)
(* token.                                                                  *)
(***************************************************************************)
TargetColumn(old_position, original_line, new_line) ==
    _snap_to_boundary(new_line,
                      (old_position * Len(new_line)) \div Max(Len(original_line), 1))

\* the cells of the token written at column c are free in the row
FreeAt(row, c, tok) ==
    \A k \in 1..Len(tok) : c + k > Len(row) \/ row[c + k] = " "

\* the row after the token has been written at column c
WrittenAt(row, c, tok) ==
    [i \in 1..Max(Len(row), c + Len(tok)) |->
        IF i > c /\ i <= c + Len(tok) THEN tok[i - c]
        ELSE IF i <= Len(row) THEN row[i]
        ELSE " "]

RECURSIVE LeftPriorityRow(_, _, _, _)
\* the row in which every token stands at the smallest free column from its
\* target on, the tokens taken from left to right
LeftPriorityRow(chord_positions, original_line, new_line, row) ==
    IF chord_positions = <<>>
    THEN row
    ELSE LET tok == chord_positions[1][2]
             target == TargetColumn(chord_positions[1][1], original_line, new_line)
             column == CHOOSE c \in target..(Len(row) + target) :
                           /\ FreeAt(row, c, tok)
                           /\ \A b \in target..(c - 1) : ~FreeAt(row, b, tok)
         IN  LeftPriorityRow(Tail(chord_positions), original_line, new_line,
                             WrittenAt(row, column, tok))

C26_LeftwardPriority ==
    (called = "_place_chords" /\ _extract_chord_positions(args.chord_line) # <<>>) =>
        returned = LeftPriorityRow(_extract_chord_positions(args.chord_line),
                                   args.original_line, args.new_line, <<>>)


(***************************************************************************)
(* Specification of the placement above short lines: the chords of a chord *)
(* line are extracted and placed above a new line that may be empty or     *)
(* much shorter than the chords together.                                  *)
(***************************************************************************)
InitPlaceCrowded ==
    /\ called = "none"
    /\ args \in { [chord_line |-> c, original_line |-> o, new_line |-> n] :
                    c \in PlacedChordLines, o \in DegenerateLines, n \in DegenerateLines }
    /\ returned = "none"
    /\ frames = <<>>
    /\ ServicesIdle

SpecPlaceCrowded == InitPlaceCrowded /\ [][NextPlace]_vars

NoTrailingSpace(s) == s = <<>> \/ s[Len(s)] # " "

\* C27 (as stated): the string returned by _place_chords has no trailing
\* space and is at most len(new_line) + 10 long, also when new_line is empty.
C27_WithinLinePlusSlack ==
    called = "_place_chords" =>
        /\ NoTrailingSpace(returned)
        /\ Len(returned) <= Len(args.new_line) + BufferSlack

\* C27 (amended): the string returned by _place_chords has no trailing space
\* and is at most max(len(new_line), 1) + 10 long, the size of the working
\* buffer: 11 when new_line is empty.
C27_WithinBuffer ==
    called = "_place_chords" =>
        /\ NoTrailingSpace(returned)
        /\ Len(returned) <= Max(Len(args.new_line), 1) + BufferSlack

\* chords placed above an empty line fill the buffer of 11 cells
C27_Witness ==
    /\ called = "_place_chords"
    /\ args.new_line = <<>>
    /\ Len(returned) = 1 + BufferSlack


(***************************************************************************)
(* C28.  Realigned chord lines stay chord lines: for every chord line and  *)
(* every non-blank new lyric line, the line produced by _place_chords      *)
(* yields under _extract_chord_positions the same sequence of tokens as    *)
(* the original chord line, and is_chord_line classifies it as a chord     *)
(* line, also when the new line is much shorter and tokens collide.        *)
(***************************************************************************)
C28_ChordLinesStayChordLines ==
    (/\ called = "_place_chords"
     /\ is_chord_line(args.chord_line)
     /\ ~IsBlank(args.new_line)) =>
        /\ TokensOf(_extract_chord_positions(returned)) =
               TokensOf(_extract_chord_positions(args.chord_line))
        /\ is_chord_line(returned)


(***************************************************************************)
(* C29.  The lyric extractor only outputs prose: for every text T no line  *)
(* of extract_text_only(T) is classified as a chord line, and extracting   *)
(* twice is the same as extracting once:                                   *)
(* extract_text_only(extract_text_only(T)) = extract_text_only(T).         *)
(***************************************************************************)
C29_ExtractorOutputsProse ==
    called = "extract_text_only" =>
        /\ \A n \in 1..Len(split_newline(returned)) :
               ~is_chord_line(split_newline(returned)[n])
        /\ extract_text_only(returned) = returned

\* a chord line directly followed by another chord line and then by a lyric
\* line: both chord lines were left out
C29_Witness ==
    /\ called = "extract_text_only"
    /\ LET lines == split_newline(args.text)
       IN  \E n \in 1..(Len(lines) - 2) :
              /\ is_chord_line(lines[n])
              /\ is_chord_line(lines[n + 1])
              /\ ~is_chord_line(lines[n + 2])
              /\ lines[n + 2] # <<>>
    /\ Len(split_newline(returned)) = Len(split_newline(args.text)) - 1

=============================================================================
